---------------------------- MODULE Spec2Model ----------------------------
(***************************************************************************)
(* StockLens ledger: executeTrade (lib/services/trade.service.ts) running  *)
(* inside a MongoDB session transaction, against the user and transaction  *)
(* collections, with the portfolio and equity reads that run beside it.    *)
(*                                                                         *)
(* Money is a JavaScript number: the oracle answers a whole price or one   *)
(* with a decimal fraction, and price * quantity and the balance           *)
(* arithmetic are the doubles the machine computes, rounded as it rounds.  *)
(*                                                                         *)
(* The store is MongoDB as the source uses it: a session transaction reads *)
(* from the snapshot taken by its first operation, its writes stay private *)
(* until commitTransaction applies them all at once, and a write to a      *)
(* document that another transaction has written since the snapshot (or    *)
(* holds an uncommitted write on) fails with a write conflict.             *)
(***************************************************************************)
EXTENDS Integers, Sequences, FiniteSets, TLC

VARIABLES
    users,      \* committed user collection: account id -> [balance, startingBalance]
    log,        \* committed transaction collection, in commit order
    version,    \* per account: number of committed writes of the user document
    locked,     \* per account: the call holding an uncommitted write on it, or NoProc
    now,        \* the wall clock read by Mongoose's timestamps
    nextId,     \* source of fresh transaction _id values
    pc,         \* per call slot: position in executeTrade
    call,       \* per call slot: the locals of executeTrade
    result,     \* per call slot: the TradeResult last returned
    ops,        \* operations (trades and reads) started so far
    rd,         \* the reader: positions and locals of the portfolio / equity reads
    replay,     \* getUserPortfolio's position replay: its input, loop index and locals
    curve,      \* the equity curve builders: their input, loop index and locals
    snapshot,   \* buildPortfolioSnapshot's concentration figures: input and output
    daily,      \* calculateDailyReturns: its input, position and locals
    sectorCache, \* the analytics module's sector cache: symbol -> sector, filled by lookups
    modal       \* the TradeModal component: its state, timer and requests in flight

\* the ledger and the calls running against it
trading == <<users, log, version, locked, now, nextId, pc, call, result, ops, rd>>

\* the computations made on what was read from the ledger
analytics == <<replay, curve, snapshot, daily, sectorCache, modal>>

vars == <<trading, analytics>>

(***************************************************************************)
(* Bounds of the model.                                                    *)
(***************************************************************************)
\* operations (executeTrade calls and reads) started in one behaviour
MaxOps == 2
\* largest price the oracle answers
MaxPrice == 2
\* largest quantity a caller asks for
MaxQty == 2
\* the balance the account is opened with (balance = startingBalance)
OpeningBalance == 4
\* last reading of the clock
MaxTime == 1

\* the call slots: executeTrade calls that can be in flight together
Procs == {"p1", "p2"}
NoProc == "none"

\* user ids with an account document, and one without
Accounts == {"u1"}
UserIds == Accounts \cup {"u0", ""}

\* symbols as callers type them: sequences of characters
RawSymbols == { <<"A">>, <<"a", " ">>, <<"B">>, <<" ">> }

\* the type argument at run time; "HOLD" stands for any string outside the enum
TradeTypes == {"BUY", "SELL", "HOLD"}

Quantities == 0..MaxQty

(***************************************************************************)
(* JavaScript values read from documents. Numbers are carried exactly, as  *)
(* reduced fractions n / d with d > 0, plus NaN; a field that is absent    *)
(* reads as undefined.                                                     *)
(***************************************************************************)
Abs(x) == IF x < 0 THEN 0 - x ELSE x

RECURSIVE GCD(_, _)
GCD(a, b) == IF b = 0 THEN a ELSE GCD(b, a % b)

\* the number n / d (d # 0), reduced
Frac(n, d) ==
    LET g == GCD(Abs(n), Abs(d))
        sign == IF d < 0 THEN 0 - 1 ELSE 1
    IN  [t |-> "number", nan |-> FALSE, n |-> (sign * n) \div g, d |-> Abs(d) \div g]

Num(n) == Frac(n, 1)

NaN == [t |-> "number", nan |-> TRUE, n |-> 0, d |-> 1]

Undefined == [t |-> "undefined"]

\* typeof v
TypeOf(v) == v.t

\* x + y, x - y, x * y: NaN in, NaN out
Plus(x, y) == IF x.nan \/ y.nan THEN NaN ELSE Frac(x.n * y.d + y.n * x.d, x.d * y.d)

Minus(x, y) == IF x.nan \/ y.nan THEN NaN ELSE Frac(x.n * y.d - y.n * x.d, x.d * y.d)

Times(x, y) == IF x.nan \/ y.nan THEN NaN ELSE Frac(x.n * y.n, x.d * y.d)

\* x / y; the source guards every division against a zero divisor
Over(x, y) == IF x.nan \/ y.nan \/ y.n = 0 THEN NaN ELSE Frac(x.n * y.d, x.d * y.n)

\* x === y on numbers
StrictEq(x, y) == ~x.nan /\ ~y.nan /\ x = y

(***************************************************************************)
(* IEEE 754 doubles, where the rounding of a double decides a result. A    *)
(* whole number of any size is a string of bits, the most significant      *)
(* first. A double above 0 is [m, e]: m its 53 significand bits, m[1] = 1, *)
(* and e the exponent of its last bit: the double is Value(m) * 2^e.       *)
(***************************************************************************)
\* bits in the significand of a double
Precision == 53

\* bits of a binary expansion taken after the point: enough for a significand and a
\* guard bit behind the leading zeros of a quotient of two whole numbers
Expansion == 86

\* bits taken at a time by the sums, products and divisions below
Chunk == 8

\* the whole number n in width bits
FixedBits(n, width) == [k \in 1..width |-> (n \div 2^(width - k)) % 2]

Zeros(count) == [k \in 1..count |-> 0]

\* the bits without leading zeros
Strip(bits) ==
    LET ones == {k \in 1..Len(bits) : bits[k] = 1}
    IN  IF ones = {} THEN <<>>
        ELSE SubSeq(bits, CHOOSE k \in ones : \A l \in ones : k <= l, Len(bits))

\* the bits of the whole number n, none for 0
Bits(n) == Strip(FixedBits(n, 31))

RECURSIVE Value(_)
\* the whole number of a string of bits
Value(bits) ==
    IF bits = <<>> THEN 0
    ELSE IF Len(bits) = 1 THEN bits[1]
    ELSE LET half == Len(bits) \div 2
         IN  Value(SubSeq(bits, 1, half)) * 2^(Len(bits) - half)
             + Value(SubSeq(bits, half + 1, Len(bits)))

\* the bits taken from a string at a time: a chunk, or all that are there
ChunkOf(bits) == IF Len(bits) < Chunk THEN Len(bits) ELSE Chunk

\* the last bits of a string, a chunk of them at most, and the bits before them
LastChunk(bits) == SubSeq(bits, Len(bits) - ChunkOf(bits) + 1, Len(bits))

BeforeLast(bits) == SubSeq(bits, 1, Len(bits) - ChunkOf(bits))

RECURSIVE AddBits(_, _, _)
\* the bits of the sum of two numbers and a carry
AddBits(a, b, carry) ==
    IF a = <<>> /\ b = <<>> THEN Bits(carry)
    ELSE LET v == Value(LastChunk(a)) + Value(LastChunk(b)) + carry
         IN  AddBits(BeforeLast(a), BeforeLast(b), v \div 2^Chunk)
             \o FixedBits(v % 2^Chunk, Chunk)

\* the bits of the number plus 1
Increment(bits) == Strip(AddBits(bits, <<>>, 1))

RECURSIVE TimesSmall(_, _, _)
\* the bits of the number times the whole number k, plus a carry
TimesSmall(bits, k, carry) ==
    IF bits = <<>> THEN Bits(carry)
    ELSE LET v == Value(LastChunk(bits)) * k + carry
         IN  TimesSmall(BeforeLast(bits), k, v \div 2^Chunk)
             \o FixedBits(v % 2^Chunk, Chunk)

RECURSIVE QuotientBits(_, _, _)
\* long division by the whole number k: the bits of the quotient, rem being the
\* remainder of the bits before
QuotientBits(bits, k, rem) ==
    IF bits = <<>> THEN <<>>
    ELSE LET width == ChunkOf(bits)
             v == rem * 2^width + Value(SubSeq(bits, 1, width))
         IN  FixedBits(v \div k, width)
             \o QuotientBits(SubSeq(bits, width + 1, Len(bits)), k, v % k)

RECURSIVE RemainderOf(_, _, _)
\* the remainder that long division leaves
RemainderOf(bits, k, rem) ==
    IF bits = <<>> THEN rem
    ELSE LET width == ChunkOf(bits)
         IN  RemainderOf(SubSeq(bits, width + 1, Len(bits)), k,
                         (rem * 2^width + Value(SubSeq(bits, 1, width))) % k)

\* round to nearest, a tie to the even significand: the double of Value(bits) * 2^e,
\* bits starting with 1, and of a little more than that when something was left over
RoundDouble(bits, e, leftOver) ==
    LET len == Len(bits)
    IN  IF len <= Precision
        THEN [m |-> bits \o Zeros(Precision - len), e |-> e - (Precision - len)]
        ELSE LET kept == SubSeq(bits, 1, Precision)
                 more == leftOver \/ \E k \in (Precision + 2)..len : bits[k] = 1
                 up == bits[Precision + 1] = 1 /\ (more \/ kept[Precision] = 1)
                 raised == IF up THEN Increment(kept) ELSE kept
             IN  IF Len(raised) > Precision
                 THEN [m |-> SubSeq(raised, 1, Precision), e |-> e + (len - Precision) + 1]
                 ELSE [m |-> raised, e |-> e + (len - Precision)]

\* p / q for whole numbers p, q above 0, as held in doubles without error
OverDouble(p, q) ==
    LET dividend == Bits(p) \o Zeros(Expansion)
    IN  RoundDouble(Strip(QuotientBits(dividend, q, 0)), 0 - Expansion,
                    RemainderOf(dividend, q, 0) # 0)

\* x * k for a double x and a whole number k above 0
TimesDouble(x, k) == RoundDouble(Strip(TimesSmall(x.m, k, 0)), x.e, FALSE)

\* x + y for doubles x >= y
PlusDouble(x, y) ==
    RoundDouble(Strip(AddBits(x.m \o Zeros(x.e - y.e), y.m, 0)), y.e, FALSE)

\* x / k for a double x and a whole number k above 0
OverSmall(x, k) ==
    LET dividend == x.m \o Zeros(Precision)
    IN  RoundDouble(Strip(QuotientBits(dividend, k, 0)), x.e - Precision,
                    RemainderOf(dividend, k, 0) # 0)

(***************************************************************************)
(* The doubles of a portfolio, of either sign. A double that is not 0 is   *)
(* [neg, m, e], the number (-1)^neg * m * 2^e, with m a whole number of 53 *)
(* bits written in two words <<high, low>>: m = high * 2^28 + low. The     *)
(* numbers of a portfolio are far from the largest and the smallest        *)
(* doubles, and no product of them is -0.                                  *)
(***************************************************************************)
Word == 2^28

Zero == [neg |-> FALSE, m |-> <<0, 0>>, e |-> 0]

\* the number of bits of the whole number n, n below 2^30
BitLength(n) == IF n = 0 THEN 0 ELSE CHOOSE k \in 1..30 : n \div 2^(k - 1) = 1

\* the number of zeros the bits of n end with, n above 0 and below 2^30
TrailingZeros(n) == CHOOSE k \in 0..29 : n % 2^k = 0 /\ (n \div 2^k) % 2 = 1

\* the number of bits of the two words w
Length(w) == IF w[1] > 0 THEN 28 + BitLength(w[1]) ELSE BitLength(w[2])

\* w * 2^k, the product below 2^58
ShiftLeft(w, k) ==
    IF k >= 28 THEN <<w[2] * 2^(k - 28), 0>>
    ELSE <<w[1] * 2^k + w[2] \div 2^(28 - k), (w[2] % 2^(28 - k)) * 2^k>>

\* w / 2^k without what is left over
ShiftRight(w, k) ==
    IF k >= 57 THEN <<0, 0>>
    ELSE IF k >= 28 THEN <<0, w[1] \div 2^(k - 28)>>
    ELSE <<w[1] \div 2^k, w[2] \div 2^k + (w[1] % 2^k) * 2^(28 - k)>>

\* whether w / 2^k leaves something over
LeftOver(w, k) ==
    IF k >= 57 THEN w # <<0, 0>>
    ELSE IF k >= 28 THEN w[2] # 0 \/ w[1] % 2^(k - 28) # 0
    ELSE w[2] % 2^k # 0

\* w with its last bit set when bits below it were left over: the last bit stands for
\* all of them when w is rounded two bits or more above it
Sticky(w, leftOver) == IF leftOver /\ w[2] % 2 = 0 THEN <<w[1], w[2] + 1>> ELSE w

\* a + b, a - b (b not above a) and a < b on two words
AddWords(a, b) ==
    LET low == a[2] + b[2]
    IN  <<a[1] + b[1] + low \div Word, low % Word>>

SubWords(a, b) ==
    LET low == a[2] - b[2]
    IN  IF low < 0 THEN <<a[1] - b[1] - 1, low + Word>> ELSE <<a[1] - b[1], low>>

LessWords(a, b) == a[1] < b[1] \/ (a[1] = b[1] /\ a[2] < b[2])

\* the double nearest to w * 2^e of the sign neg, w below 2^58: w is brought to 53
\* bits, and what is cut is rounded to the nearest, a tie to the even one
RoundWords(neg, w, e) ==
    IF w = <<0, 0>> THEN Zero
    ELSE LET cut == Length(w) - Precision
         IN  IF cut <= 0 THEN [neg |-> neg, m |-> ShiftLeft(w, 0 - cut), e |-> e + cut]
             ELSE LET kept == ShiftRight(w, cut)
                      left == w[2] % 2^cut
                      up == left > 2^(cut - 1) \/ (left = 2^(cut - 1) /\ kept[2] % 2 = 1)
                      m == IF up THEN AddWords(kept, <<0, 1>>) ELSE kept
                  IN  IF m = <<2^25, 0>> THEN [neg |-> neg, m |-> <<2^24, 0>>, e |-> e + cut + 1]
                      ELSE [neg |-> neg, m |-> m, e |-> e + cut]

\* -x
Negate(x) == IF x = Zero THEN x ELSE [x EXCEPT !.neg = ~x.neg]

\* x + y: both with three bits more, the one of the smaller exponent moved to the
\* exponent of the other
AddDouble(x, y) ==
    IF x = Zero THEN y
    ELSE IF y = Zero THEN x
    ELSE LET big == IF x.e < y.e THEN y ELSE x
             small == IF x.e < y.e THEN x ELSE y
             a == ShiftLeft(big.m, 3)
             b == Sticky(ShiftRight(ShiftLeft(small.m, 3), big.e - small.e),
                         LeftOver(ShiftLeft(small.m, 3), big.e - small.e))
         IN  IF big.neg = small.neg THEN RoundWords(big.neg, AddWords(a, b), big.e - 3)
             ELSE IF LessWords(a, b) THEN RoundWords(small.neg, SubWords(b, a), big.e - 3)
             ELSE RoundWords(big.neg, SubWords(a, b), big.e - 3)

\* the four digits of 14 bits of the two words w, the last one first
Digit == 2^14

Digits(w) == <<w[2] % Digit, w[2] \div Digit, w[1] % Digit, w[1] \div Digit>>

\* x * y: the digits of the product column by column, and of the product its first 55
\* or 56 bits
MulDouble(x, y) ==
    IF x = Zero \/ y = Zero THEN Zero
    ELSE LET a == Digits(x.m)
             b == Digits(y.m)
             c0 == a[1] * b[1]
             c1 == a[1] * b[2] + a[2] * b[1] + c0 \div Digit
             c2 == a[1] * b[3] + a[2] * b[2] + a[3] * b[1] + c1 \div Digit
             c3 == a[1] * b[4] + a[2] * b[3] + a[3] * b[2] + a[4] * b[1] + c2 \div Digit
             c4 == a[2] * b[4] + a[3] * b[3] + a[4] * b[2] + c3 \div Digit
             c5 == a[3] * b[4] + a[4] * b[3] + c4 \div Digit
             c6 == a[4] * b[4] + c5 \div Digit
             high == <<c6, (c5 % Digit) * Digit + (c4 % Digit)>>
             first == AddWords(ShiftLeft(high, 6), <<0, (c3 % Digit) \div 2^8>>)
             leftOver == (c3 % Digit) % 2^8 # 0 \/ c2 % Digit # 0 \/ c1 % Digit # 0
                             \/ c0 % Digit # 0
         IN  RoundWords(x.neg # y.neg, Sticky(first, leftOver), x.e + y.e + 50)

\* the divisor taken k times, k below 8
TimesDigit(divisor, k) ==
    <<divisor[1] * k + (divisor[2] * k) \div Word, (divisor[2] * k) % Word>>

\* how often the divisor goes into r, r below 8 times the divisor
Goes(divisor, r) ==
    CHOOSE k \in 0..7 : /\ ~LessWords(r, TimesDigit(divisor, k))
                        /\ (k = 7 \/ LessWords(r, TimesDigit(divisor, k + 1)))

\* one step of the division: three more bits of the quotient, and what remains
DivideStep(divisor, st) ==
    [q |-> AddWords(ShiftLeft(st.q, 3), <<0, Goes(divisor, ShiftLeft(st.r, 3))>>),
     r |-> SubWords(ShiftLeft(st.r, 3),
                    TimesDigit(divisor, Goes(divisor, ShiftLeft(st.r, 3))))]

RECURSIVE Divide(_, _, _)
\* the division step by step; once nothing remains, every bit the quotient still gets
\* is 0
Divide(divisor, st, times) ==
    IF times = 0 \/ st.r = <<0, 0>> THEN [q |-> ShiftLeft(st.q, 3 * times), r |-> st.r]
    ELSE Divide(divisor, DivideStep(divisor, st), times - 1)

\* the double of the quotient q of a division that left r
RoundDivided(neg, divided, e) ==
    RoundWords(neg, Sticky(divided.q, divided.r # <<0, 0>>), e)

\* x / y, y not 0: the quotient of the two m to 57 or 58 bits, and whether the
\* division left a remainder
DivDouble(x, y) ==
    IF x = Zero THEN Zero
    ELSE IF LessWords(x.m, y.m)
    THEN RoundDivided(x.neg # y.neg, Divide(y.m, [q |-> <<0, 0>>, r |-> x.m], 19),
                      x.e - y.e - 57)
    ELSE RoundDivided(x.neg # y.neg,
                      Divide(y.m, [q |-> <<0, 1>>, r |-> SubWords(x.m, y.m)], 19),
                      x.e - y.e - 57)

\* the double of the whole number n
Whole(n) == RoundWords(n < 0, <<Abs(n) \div Word, Abs(n) % Word>>, 0)

(***************************************************************************)
(* The numbers of a portfolio. A number is written n/d, as above, while it *)
(* is a double whose n and d are short: the sum, difference and product of *)
(* two such doubles are exact when they are short too, and so is their     *)
(* quotient when it is a fraction of that kind. Every other number is      *)
(* written as the double it is, [t, nan, neg, m, e], and every other       *)
(* result is computed from the doubles and rounded as the machine rounds.  *)
(***************************************************************************)
InBits(x) == "m" \in DOMAIN x

PowerOfTwo(d) == \E k \in 0..30 : d = 2^k

\* a * b is short: below 2^30 either way
Short(a, b) == a = 0 \/ b = 0 \/ Abs(a) <= (2^30 - 1) \div Abs(b)

\* x is written n/d and is a double
Dyadic(x) == ~InBits(x) /\ PowerOfTwo(x.d)

\* the double nearest to the number x, x itself when a double holds it
Double(x) ==
    IF InBits(x) THEN [neg |-> x.neg, m |-> x.m, e |-> x.e]
    ELSE IF x.d = 1 THEN Whole(x.n)
    ELSE DivDouble(Whole(x.n), Whole(x.d))

\* the number of the double x: n/d when n and d are short
NumberOf(x) ==
    IF x = Zero THEN Num(0)
    ELSE LET zeros == IF x.m[2] = 0 THEN 28 + TrailingZeros(x.m[1])
                      ELSE TrailingZeros(x.m[2])
             e == x.e + zeros
             shifted == ShiftRight(x.m, zeros)
             n == IF x.neg THEN 0 - (shifted[1] * Word + shifted[2])
                  ELSE shifted[1] * Word + shifted[2]
         IN  IF Precision - zeros <= 30 /\ e >= 0 /\ Precision - zeros + e <= 30
             THEN Num(n * 2^e)
             ELSE IF Precision - zeros <= 30 /\ e < 0 /\ e >= 0 - 30
             THEN Frac(n, 2^(0 - e))
             ELSE [t |-> "number", nan |-> FALSE, neg |-> x.neg, m |-> x.m, e |-> x.e]

\* the number a double holds for the fraction x
Nearest(x) == NumberOf(Double(x))

\* x > 0
Positive(x) == IF InBits(x) THEN ~x.neg ELSE ~x.nan /\ x.n > 0

\* x + y
Add(x, y) ==
    IF x.nan \/ y.nan THEN NaN
    ELSE IF /\ Dyadic(x) /\ Dyadic(y)
            /\ Short(x.n, y.d) /\ Short(y.n, x.d) /\ Short(x.d, y.d)
            /\ Abs(x.n * y.d) + Abs(y.n * x.d) < 2^30
         THEN Plus(x, y)
         ELSE NumberOf(AddDouble(Double(x), Double(y)))

\* x - y
Sub(x, y) ==
    IF x.nan \/ y.nan THEN NaN
    ELSE IF /\ Dyadic(x) /\ Dyadic(y)
            /\ Short(x.n, y.d) /\ Short(y.n, x.d) /\ Short(x.d, y.d)
            /\ Abs(x.n * y.d) + Abs(y.n * x.d) < 2^30
         THEN Minus(x, y)
         ELSE NumberOf(AddDouble(Double(x), Negate(Double(y))))

\* x * y
Mul(x, y) ==
    IF x.nan \/ y.nan THEN NaN
    ELSE IF Dyadic(x) /\ Dyadic(y) /\ Short(x.n, y.n) /\ Short(x.d, y.d)
         THEN Times(x, y)
         ELSE NumberOf(MulDouble(Double(x), Double(y)))

\* x / y, y not 0 (the portfolio divides by numbers it found above 0)
Div(x, y) ==
    IF x.nan \/ y.nan \/ (~InBits(y) /\ y.n = 0) THEN NaN
    ELSE IF /\ Dyadic(x) /\ Dyadic(y)
            /\ Short(x.n, y.d) /\ Short(x.d, y.n)
            /\ PowerOfTwo(Over(x, y).d)
         THEN Over(x, y)
         ELSE NumberOf(DivDouble(Double(x), Double(y)))

\* x < y, x <= y, x > y: every comparison with NaN is false; of two doubles that
\* differ the difference is a double other than 0, of the sign of the exact one
Less(x, y) ==
    IF InBits(x) \/ InBits(y) THEN Positive(Sub(y, x))
    ELSE ~x.nan /\ ~y.nan /\ x.n * y.d < y.n * x.d

LessEq(x, y) ==
    IF InBits(x) \/ InBits(y) THEN ~x.nan /\ ~y.nan /\ ~Positive(Sub(x, y))
    ELSE ~x.nan /\ ~y.nan /\ x.n * y.d <= y.n * x.d

Greater(x, y) == Less(y, x)

\* a price with a decimal fraction: 0.1, as the double that holds it
DecimalPrice == Nearest(Frac(1, 10))

\* answers of getStockDetails: failure, success without a price, success with one, a
\* whole number or a decimal fraction
OracleAnswers ==
    { [success |-> FALSE, hasPrice |-> FALSE, currentPrice |-> Num(0)],
      [success |-> TRUE,  hasPrice |-> FALSE, currentPrice |-> Num(0)] }
    \cup { [success |-> TRUE, hasPrice |-> TRUE, currentPrice |-> Num(x)] :
                x \in (0 - 1)..MaxPrice }
    \cup { [success |-> TRUE, hasPrice |-> TRUE, currentPrice |-> DecimalPrice] }

(***************************************************************************)
(* String helpers: symbol.toUpperCase().trim()                             *)
(***************************************************************************)
UpperChar(c) ==
    CASE c = "a" -> "A"
      [] c = "b" -> "B"
      [] OTHER -> c

RECURSIVE ToUpperCase(_)
ToUpperCase(s) ==
    IF s = <<>> THEN <<>> ELSE <<UpperChar(Head(s))>> \o ToUpperCase(Tail(s))

RECURSIVE TrimStart(_)
TrimStart(s) ==
    IF s # <<>> /\ Head(s) = " " THEN TrimStart(Tail(s)) ELSE s

RECURSIVE TrimEnd(_)
TrimEnd(s) ==
    IF s # <<>> /\ s[Len(s)] = " " THEN TrimEnd(SubSeq(s, 1, Len(s) - 1)) ELSE s

Trim(s) == TrimEnd(TrimStart(s))

NormalizeSymbol(symbol) == Trim(ToUpperCase(symbol))

(***************************************************************************)
(* Error messages                                                          *)
(***************************************************************************)
ErrInvalidParams == "Invalid trade parameters"
ErrPrice == "Unable to fetch current stock price"
ErrUserNotFound == "User not found"
ErrInsufficientBalance == "Insufficient balance"
ErrInsufficientHoldings == "Insufficient holdings"
ErrInvalidType == "Invalid transaction type"
\* errors raised by the store / Mongoose rather than by executeTrade's own throws
ErrWriteConflict == "WriteConflict"
ErrValidation == "Validation failed"
ErrStore == "Store failure"
\* the driver's error for abortTransaction on a session whose commit was attempted
ErrAbortAfterCommit == "Cannot call abortTransaction after calling commitTransaction"
NoError == ""

(***************************************************************************)
(* Ledger arithmetic                                                       *)
(***************************************************************************)
RECURSIVE NetQuantity(_)
\* lines 79-86: BUY adds the quantity, SELL subtracts it
NetQuantity(txns) ==
    IF txns = <<>> THEN 0
    ELSE LET t == txns[Len(txns)]
             rest == NetQuantity(SubSeq(txns, 1, Len(txns) - 1))
         IN  IF t.type = "BUY" THEN rest + t.quantity
             ELSE IF t.type = "SELL" THEN rest - t.quantity
             ELSE rest

RECURSIVE SelectTxns(_, _, _)
\* Transaction.find({userId, symbol}): the matching documents, in stored order
SelectTxns(txns, userId, symbol) ==
    IF txns = <<>> THEN <<>>
    ELSE LET t == Head(txns)
             rest == SelectTxns(Tail(txns), userId, symbol)
         IN  IF t.userId = userId /\ t.symbol = symbol THEN <<t>> \o rest ELSE rest

RECURSIVE UserTxns(_, _)
\* Transaction.find({userId}): the user's documents, in stored order
UserTxns(txns, userId) ==
    IF txns = <<>> THEN <<>>
    ELSE LET t == Head(txns)
             rest == UserTxns(Tail(txns), userId)
         IN  IF t.userId = userId THEN <<t>> \o rest ELSE rest

(***************************************************************************)
(* Locals and results                                                      *)
(***************************************************************************)
NoCall ==
    [ userId |-> "", symbol |-> <<>>, type |-> "", quantity |-> 0,
      price |-> Num(0), totalAmount |-> Num(0),
      inTxn |-> FALSE,          \* the session has an open store transaction
      txn |-> "none",           \* the session's transaction state in the driver
      hasSnap |-> FALSE, snapBalance |-> Num(0), snapLog |-> <<>>, snapVersion |-> 0,
      balance |-> Num(0),       \* user.balance of the loaded document
      saved |-> FALSE,          \* user.save has written inside the transaction
      created |-> FALSE, txnId |-> 0, createdAt |-> 0,
      err |-> NoError ]

NoResult ==
    [ success |-> FALSE, error |-> NoError,
      rejected |-> FALSE,       \* the call threw instead of returning a TradeResult
      transactionId |-> 0, symbol |-> <<>>, type |-> "", quantity |-> 0,
      price |-> Num(0), totalAmount |-> Num(0), newBalance |-> Num(0) ]

\* the reader runs getUserPortfolio (the P fields), getEquityTimeSeries (the E
\* fields), or both at once for buildPortfolioSnapshot
NoRead ==
    [ op |-> "none", userId |-> "",
      pcP |-> "idle", balance |-> Num(0), startP |-> Num(0), logP |-> <<>>,
      pcE |-> "idle", startE |-> Num(0), logE |-> <<>> ]

\* getEquityTimeSeries is private to the analytics service: only the snapshot runs it
ReadOps == {"portfolio", "snapshot"}

\* the position replay of getUserPortfolio before it is called; run counts the calls
\* made on one list and first is what the first of them returned
NoReplay ==
    [ pc |-> "idle", transactions |-> <<>>, i |-> 0, run |-> 0, first |-> <<>>,
      symbolState |-> <<>>, activeSymbols |-> <<>>,
      balance |-> 0, startingBalance |-> 0, priceResults |-> <<>>, positions |-> <<>>,
      totalMarketValue |-> 0, totalUnrealizedPnL |-> 0, totalEquity |-> 0,
      totalReturn |-> 0, totalReturnPercent |-> 0 ]

\* an equity curve builder before it is called; run counts the calls made on one list,
\* first is what the first of them returned and clock the time new Date() gave the
\* call that read it
NoCurve ==
    [ pc |-> "idle", op |-> "none", transactions |-> <<>>, stored |-> 0,
      startingBalance |-> 0, i |-> 0, cash |-> 0, holdings |-> <<>>, lastPrice |-> <<>>,
      points |-> <<>>, run |-> 0, first |-> <<>>, clock |-> 0 ]

\* the figures of buildPortfolioSnapshot before it is called; a field that is null or
\* a value is the empty sequence or the sequence of that value
NoSnapshot ==
    [ pc |-> "idle", positions |-> <<>>, balance |-> 0, totalEquity |-> 0,
      largestPosition |-> <<>>, concentrationRiskLevel |-> "",
      equityPoints |-> <<>>, dailyReturns |-> <<>>,
      annualisedVolatility |-> 0, annualisedReturn |-> 0,
      volatility |-> 0, sharpeRatio |-> 0,
      token |-> <<>>, profiles |-> <<>>, sectorResults |-> <<>>, sectorBreakdown |-> <<>>,
      topGainer |-> <<>>, topLoser |-> <<>> ]

\* calculateDailyReturns before it is called
NoDaily ==
    [ pc |-> "idle", points |-> <<>>, i |-> 0, byDay |-> <<>>,
      dailyEquities |-> <<>>, returns |-> <<>> ]

\* One TradeModal from the render that mounts it (lines 39-51) on, with defaultSymbol
\* "" and defaultType "BUY" and the isOpen of its host false; currentPrice is null or
\* the sequence of one price. timer is the symbol of the fetchPrice closure the pending
\* timeout holds, fetches the symbols of the closures awaiting getStockDetails,
\* priceFor the symbol currentPrice was fetched for, requests the POST /api/trade
\* requests in flight and settled the way the last of them ended. host is the
\* component that renders the modal, mounted whether the page still renders it,
\* refreshes the router.refresh() calls whose page has not arrived and blurs the
\* timeouts of 150 ms set by onBlur and not fired yet. Once the modal is unmounted its
\* state is what its last render held: the setters do nothing any more.
NoModal ==
    [ open |-> FALSE, symbol |-> <<>>, quantity |-> <<>>, type |-> "BUY",
      loading |-> FALSE, error |-> "",
      currentPrice |-> <<>>, priceLoading |-> FALSE, priceError |-> "",
      timer |-> <<>>, fetches |-> <<>>, priceFor |-> <<>>,
      requests |-> <<>>, settled |-> "none",
      positions |-> <<>>, disableSuggestions |-> FALSE,
      suggestions |-> <<>>, suggestionsLoading |-> FALSE, showSuggestions |-> FALSE,
      searchTimer |-> FALSE, searches |-> 0,
      host |-> "PortfolioTradeButton", mounted |-> TRUE, refreshes |-> 0, blurs |-> 0 ]

\* The account as opened (balance = startingBalance, no transactions), or as it is
\* after its first trade, a committed BUY of 2 A at price 1.
FirstBuy ==
    [ id |-> 1, userId |-> "u1", symbol |-> <<"A">>, type |-> "BUY",
      quantity |-> 2, price |-> Num(1), totalAmount |-> Num(2), createdAt |-> 0 ]

InitialLedgers ==
    { [balance |-> Num(OpeningBalance), log |-> <<>>],
      [balance |-> Sub(Num(OpeningBalance), FirstBuy.totalAmount), log |-> <<FirstBuy>>] }

Init ==
    /\ modal = NoModal
    /\ \E ledger \in InitialLedgers :
         /\ users = [u \in Accounts |-> [balance |-> ledger.balance,
                                         startingBalance |-> Num(OpeningBalance)]]
         /\ log = ledger.log
         /\ version = [u \in Accounts |-> Len(ledger.log)]
         /\ nextId = Len(ledger.log) + 1
    /\ locked = [u \in Accounts |-> NoProc]
    /\ now = 0
    /\ pc = [p \in Procs |-> "idle"]
    /\ call = [p \in Procs |-> NoCall]
    /\ result = [p \in Procs |-> NoResult]
    /\ ops = 0
    /\ rd = NoRead
    /\ replay = NoReplay
    /\ curve = NoCurve
    /\ snapshot = NoSnapshot
    /\ daily = NoDaily
    /\ sectorCache = <<>>

(***************************************************************************)
(* executeTrade                                                            *)
(***************************************************************************)
\* throw inside the try block: control goes to the catch clause
Throw(p, locals, msg) ==
    /\ call' = [call EXCEPT ![p] = [NoCall EXCEPT !.inTxn = locals.inTxn, !.txn = locals.txn,
                                                  !.err = msg]]
    /\ pc' = [pc EXCEPT ![p] = "catch"]

\* lines 23-43: connect, start the session and its transaction, normalize, validate
Begin(p) ==
    /\ pc[p] = "idle"
    /\ ops < MaxOps
    /\ \E userId \in UserIds, symbol \in RawSymbols, type \in TradeTypes, quantity \in Quantities :
         LET upperSymbol == NormalizeSymbol(symbol)
             locals == [NoCall EXCEPT !.userId = userId, !.symbol = upperSymbol,
                                      !.type = type, !.quantity = quantity,
                                      !.inTxn = TRUE, !.txn = "open"]
         IN  IF userId = "" \/ upperSymbol = <<>> \/ quantity < 1
             THEN Throw(p, locals, ErrInvalidParams)
             ELSE /\ call' = [call EXCEPT ![p] = locals]
                  /\ pc' = [pc EXCEPT ![p] = "price"]
    /\ ops' = ops + 1
    /\ UNCHANGED <<users, log, version, locked, now, nextId, result, rd, analytics>>

\* line 47: !stockData.success || !stockData.data?.currentPrice (a missing price,
\* the number 0 and NaN are falsy; any other number, a negative one too, is not)
PriceUnavailable(stockData) ==
    \/ ~stockData.success
    \/ ~stockData.hasPrice
    \/ stockData.currentPrice.nan
    \/ stockData.currentPrice = Num(0)

\* lines 45-52: fetch the price, reject a failed or falsy answer, compute totalAmount
FetchPrice(p) ==
    /\ pc[p] = "price"
    /\ \E stockData \in OracleAnswers :
         IF PriceUnavailable(stockData)
         THEN Throw(p, call[p], ErrPrice)
         ELSE /\ call' = [call EXCEPT ![p].price = stockData.currentPrice,
                                      ![p].totalAmount = Mul(stockData.currentPrice,
                                                             Num(call[p].quantity))]
              /\ pc' = [pc EXCEPT ![p] = "load"]
    /\ UNCHANGED <<users, log, version, locked, now, nextId, result, ops, rd, analytics>>

\* the comparison of line 65 written the wrong way round
InsufficientBalanceReversed(balance, totalAmount) == Less(totalAmount, balance)

\* line 65: user.balance < totalAmount
InsufficientBalance(balance, totalAmount) == Less(balance, totalAmount)

\* line 70: user.balance -= totalAmount
Debit(balance, totalAmount) == Sub(balance, totalAmount)

\* a holdings check that only asks whether the symbol is held at all
InsufficientHoldingsAnyPosition(netQuantity, quantity) == netQuantity <= 0

\* line 89: netQuantity < quantity
InsufficientHoldings(netQuantity, quantity) == netQuantity < quantity

\* line 94: user.balance += totalAmount
Credit(balance, totalAmount) == Add(balance, totalAmount)

\* lines 54-70, 95-97: load the account inside the transaction (its first store
\* operation, which fixes the snapshot); BUY is validated and debited in memory
LoadUser(p) ==
    /\ pc[p] = "load"
    /\ LET c == call[p]
           u == c.userId
       IN  \E ok \in BOOLEAN :
             IF ~ok THEN Throw(p, c, ErrStore)
             ELSE IF u \notin Accounts THEN Throw(p, c, ErrUserNotFound)
             ELSE LET snap == [c EXCEPT !.hasSnap = TRUE,
                                        !.snapBalance = users[u].balance,
                                        !.snapLog = log,
                                        !.snapVersion = version[u],
                                        !.balance = users[u].balance]
                  IN  IF c.type = "BUY"
                      THEN IF InsufficientBalance(snap.balance, c.totalAmount)
                           THEN Throw(p, snap, ErrInsufficientBalance)
                           ELSE /\ call' = [call EXCEPT ![p] =
                                              [snap EXCEPT !.balance = Debit(snap.balance, c.totalAmount)]]
                                /\ pc' = [pc EXCEPT ![p] = "save"]
                      ELSE IF c.type = "SELL"
                           THEN /\ call' = [call EXCEPT ![p] = snap]
                                /\ pc' = [pc EXCEPT ![p] = "find"]
                           ELSE Throw(p, snap, ErrInvalidType)
    /\ UNCHANGED <<users, log, version, locked, now, nextId, result, ops, rd, analytics>>

\* lines 71-94: SELL reads the symbol's transactions from the snapshot, checks the
\* holdings and credits the proceeds in memory
FindTxns(p) ==
    /\ pc[p] = "find"
    /\ LET c == call[p]
           transactions == SelectTxns(c.snapLog, c.userId, c.symbol)
           netQuantity == NetQuantity(transactions)
       IN  \E ok \in BOOLEAN :
             IF ~ok THEN Throw(p, c, ErrStore)
             ELSE IF InsufficientHoldings(netQuantity, c.quantity)
                  THEN Throw(p, c, ErrInsufficientHoldings)
                  ELSE /\ call' = [call EXCEPT ![p].balance = Credit(c.balance, c.totalAmount)]
                       /\ pc' = [pc EXCEPT ![p] = "save"]
    /\ UNCHANGED <<users, log, version, locked, now, nextId, result, ops, rd, analytics>>

\* user schema: balance has min 0, checked by Mongoose before the document is written
ValidUser(balance) == LessEq(Num(0), balance)

\* a store without write-conflict detection: the last writer wins
WriteConflictNever(p, u) == FALSE

\* the store refuses a write to a document written since the snapshot, or one that
\* another open transaction has written
WriteConflict(p, u) ==
    \/ locked[u] \notin {NoProc, p}
    \/ version[u] # call[p].snapVersion

\* user.save() called without the session: the write lands in the committed
\* collection at once, outside the transaction
SaveUserOutsideSession(p) ==
    /\ pc[p] = "save"
    /\ LET c == call[p]
           u == c.userId
       IN  \E ok \in BOOLEAN :
             IF ~ValidUser(c.balance) THEN /\ Throw(p, c, ErrValidation)
                                           /\ UNCHANGED <<users, version>>
             ELSE IF ~ok THEN /\ Throw(p, c, ErrStore)
                              /\ UNCHANGED <<users, version>>
             ELSE /\ call' = [call EXCEPT ![p].saved = TRUE]
                  /\ users' = [users EXCEPT ![u].balance = c.balance]
                  /\ version' = [version EXCEPT ![u] = version[u] + 1]
                  /\ pc' = [pc EXCEPT ![p] = "create"]
    /\ UNCHANGED <<log, locked, now, nextId, result, ops, rd, analytics>>

\* line 100: user.save({ session })
SaveUser(p) ==
    /\ pc[p] = "save"
    /\ LET c == call[p]
           u == c.userId
       IN  \E ok \in BOOLEAN :
             IF ~ValidUser(c.balance) THEN /\ Throw(p, c, ErrValidation)
                                           /\ UNCHANGED locked
             ELSE IF ~ok THEN /\ Throw(p, c, ErrStore)
                              /\ UNCHANGED locked
             ELSE IF WriteConflict(p, u) THEN /\ Throw(p, c, ErrWriteConflict)
                                              /\ UNCHANGED locked
             ELSE /\ call' = [call EXCEPT ![p].saved = TRUE]
                  /\ locked' = [locked EXCEPT ![u] = p]
                  /\ pc' = [pc EXCEPT ![p] = "create"]
    /\ UNCHANGED <<users, log, version, now, nextId, result, ops, rd, analytics>>

\* transaction schema: type in the enum, quantity at least 1
ValidTransaction(type, quantity) == type \in {"BUY", "SELL"} /\ quantity >= 1

\* lines 102-115: Transaction.create([...], { session }); Mongoose stamps createdAt
CreateTransaction(p) ==
    /\ pc[p] = "create"
    /\ LET c == call[p]
       IN  \E ok \in BOOLEAN, t \in {now, now + 1} :
             /\ t <= MaxTime
             /\ IF ~ValidTransaction(c.type, c.quantity)
                THEN /\ Throw(p, c, ErrValidation)
                     /\ UNCHANGED <<now, nextId>>
                ELSE IF ~ok
                THEN /\ Throw(p, c, ErrStore)
                     /\ UNCHANGED <<now, nextId>>
                ELSE /\ call' = [call EXCEPT ![p].created = TRUE,
                                             ![p].txnId = nextId,
                                             ![p].createdAt = t]
                     /\ nextId' = nextId + 1
                     /\ now' = t
                     /\ pc' = [pc EXCEPT ![p] = "commit"]
    /\ UNCHANGED <<users, log, version, locked, result, ops, rd, analytics>>

\* the document Transaction.create wrote inside the transaction
NewTransaction(c) ==
    [ id |-> c.txnId, userId |-> c.userId, symbol |-> c.symbol, type |-> c.type,
      quantity |-> c.quantity, price |-> c.price, totalAmount |-> c.totalAmount,
      createdAt |-> c.createdAt ]

\* a store that keeps one transaction document per user and symbol: a later trade of
\* the symbol overwrites the earlier document
ApplyWritesUpsert(p) ==
    LET c == call[p]
        u == c.userId
        same == {i \in 1..Len(log) : log[i].userId = u /\ log[i].symbol = c.symbol}
    IN  /\ users' = [users EXCEPT ![u].balance = c.balance]
        /\ log' = IF same = {} THEN Append(log, NewTransaction(c))
                  ELSE [i \in 1..Len(log) |-> IF i \in same THEN NewTransaction(c) ELSE log[i]]
        /\ version' = [version EXCEPT ![u] = version[u] + 1]
        /\ locked' = [locked EXCEPT ![u] = NoProc]

\* the store applying a transaction's writes: both documents become visible together
ApplyWrites(p) ==
    LET c == call[p]
        u == c.userId
    IN  /\ users' = [users EXCEPT ![u].balance = c.balance]
        /\ log' = Append(log, NewTransaction(c))
        /\ version' = [version EXCEPT ![u] = version[u] + 1]
        /\ locked' = [locked EXCEPT ![u] = NoProc]

\* a result that reports the balance as it was loaded, not as it was saved
SuccessResultLoadedBalance(c) ==
    [ success |-> TRUE, error |-> NoError, rejected |-> FALSE,
      transactionId |-> c.txnId, symbol |-> c.symbol, type |-> c.type,
      quantity |-> c.quantity, price |-> c.price, totalAmount |-> c.totalAmount,
      newBalance |-> c.snapBalance ]

\* lines 120-131: the success result
SuccessResult(c) ==
    [ success |-> TRUE, error |-> NoError, rejected |-> FALSE,
      transactionId |-> c.txnId, symbol |-> c.symbol, type |-> c.type,
      quantity |-> c.quantity, price |-> c.price, totalAmount |-> c.totalAmount,
      newBalance |-> c.balance ]

\* lines 117-131: commitTransaction, then build the success result; a commit that
\* fails leaves the session in the driver's committed state all the same
Commit(p) ==
    /\ pc[p] = "commit"
    /\ \E ok \in BOOLEAN :
         IF ~ok
         THEN /\ Throw(p, [call[p] EXCEPT !.txn = "commit failed"], ErrStore)
              /\ UNCHANGED <<users, log, version, locked, result>>
         ELSE /\ ApplyWrites(p)
              /\ call' = [call EXCEPT ![p] = [NoCall EXCEPT !.txn = "committed"]]
              /\ result' = [result EXCEPT ![p] = SuccessResult(call[p])]
              /\ pc' = [pc EXCEPT ![p] = "finally"]
    /\ UNCHANGED <<now, nextId, ops, rd, analytics>>

\* lines 138-141: the failure result carries the error's message
FailureResult(msg) == [NoResult EXCEPT !.error = msg]

\* abortTransaction throws out of the catch clause: the call rejects with the driver's
\* error and returns no TradeResult
Rejection(msg) == [NoResult EXCEPT !.error = msg, !.rejected = TRUE]

\* lines 132-141: abortTransaction drops the transaction's writes, then the failure
\* result; after a commit was attempted the driver refuses the abort and throws, and
\* the store drops the writes of the failed commit itself
Catch(p) ==
    /\ pc[p] = "catch"
    /\ locked' = [u \in Accounts |-> IF locked[u] = p THEN NoProc ELSE locked[u]]
    /\ IF call[p].txn = "commit failed"
       THEN /\ call' = [call EXCEPT ![p] = [NoCall EXCEPT !.txn = "commit failed"]]
            /\ result' = [result EXCEPT ![p] = Rejection(ErrAbortAfterCommit)]
       ELSE /\ call' = [call EXCEPT ![p] = [NoCall EXCEPT !.txn = "aborted"]]
            /\ result' = [result EXCEPT ![p] = FailureResult(call[p].err)]
    /\ pc' = [pc EXCEPT ![p] = "finally"]
    /\ UNCHANGED <<users, log, version, now, nextId, ops, rd, analytics>>

\* lines 142-145: endSession, and the result reaches the caller
Finally(p) ==
    /\ pc[p] = "finally"
    /\ call' = [call EXCEPT ![p] = NoCall]
    /\ result' = [result EXCEPT ![p] = NoResult]
    /\ pc' = [pc EXCEPT ![p] = "idle"]
    /\ UNCHANGED <<users, log, version, locked, now, nextId, ops, rd, analytics>>

executeTrade(p) ==
    \/ Begin(p)
    \/ FetchPrice(p)
    \/ LoadUser(p)
    \/ FindTxns(p)
    \/ SaveUser(p)
    \/ CreateTransaction(p)
    \/ Commit(p)
    \/ Catch(p)
    \/ Finally(p)

(***************************************************************************)
(* Read paths                                                              *)
(***************************************************************************)
\* user schema default of balance and startingBalance
DefaultBalance == 100000

\* JavaScript's x || d on a number: d replaces 0 and NaN
OrElse(x, d) == IF x.nan \/ x = Num(0) THEN d ELSE x

\* .sort({ createdAt: 1 }): every order of the documents that is ascending in
\* createdAt; the sort names no second key, and the store returns documents of equal
\* createdAt in any order
SortsByCreatedAt(txns) ==
    LET n == Len(txns)
        orders == { f \in [1..n -> 1..n] :
                      /\ \A j, k \in 1..n : j # k => f[j] # f[k]
                      /\ \A j, k \in 1..n :
                           j < k => txns[f[j]].createdAt <= txns[f[k]].createdAt }
    IN  { [k \in 1..n |-> txns[f[k]]] : f \in orders }

\* a caller invokes getUserPortfolio or buildPortfolioSnapshot (the reader follows one
\* call at a time: what an earlier call left running has finished)
StartRead ==
    /\ rd.op = "none"
    /\ rd.pcP \in {"idle", "done", "failed"}
    /\ rd.pcE \in {"idle", "done", "failed"}
    /\ ops < MaxOps
    /\ \E op \in ReadOps, userId \in Accounts \cup {"u0"} :
         rd' = [NoRead EXCEPT !.op = op, !.userId = userId,
                              !.pcP = IF op \in {"portfolio", "snapshot"} THEN "user" ELSE "idle",
                              !.pcE = IF op = "snapshot" THEN "user" ELSE "idle"]
    /\ ops' = ops + 1
    /\ UNCHANGED <<users, log, version, locked, now, nextId, pc, call, result, analytics>>

\* a read that writes the account back, its startingBalance rebased to the balance read
PortfolioReadUserRebases ==
    /\ rd.pcP = "user"
    /\ IF rd.userId \notin Accounts
       THEN /\ rd' = [rd EXCEPT !.pcP = "failed"]
            /\ UNCHANGED users
       ELSE /\ rd' = [rd EXCEPT !.balance = OrElse(users[rd.userId].balance, Num(0)),
                                !.startP = OrElse(users[rd.userId].startingBalance,
                                                   Num(DefaultBalance)),
                                !.pcP = "txns"]
            /\ users' = [users EXCEPT ![rd.userId].startingBalance = users[rd.userId].balance]
    /\ UNCHANGED <<log, version, locked, now, nextId, pc, call, result, ops, analytics>>

\* getUserPortfolio lines 35-42: read the committed account
PortfolioReadUser ==
    /\ rd.pcP = "user"
    /\ IF rd.userId \notin Accounts
       THEN rd' = [rd EXCEPT !.pcP = "failed"]
       ELSE rd' = [rd EXCEPT !.balance = OrElse(users[rd.userId].balance, Num(0)),
                             !.startP = OrElse(users[rd.userId].startingBalance,
                                                   Num(DefaultBalance)),
                             !.pcP = "txns"]
    /\ UNCHANGED <<users, log, version, locked, now, nextId, pc, call, result, ops, analytics>>

\* getUserPortfolio lines 44-47: read the committed transactions of the user
PortfolioReadTxns ==
    /\ rd.pcP = "txns"
    /\ \E sorted \in SortsByCreatedAt(UserTxns(log, rd.userId)) :
         rd' = [rd EXCEPT !.logP = sorted, !.pcP = "done"]
    /\ UNCHANGED <<users, log, version, locked, now, nextId, pc, call, result, ops, analytics>>

\* getEquityTimeSeries lines 174-183: read the committed account
EquityReadUser ==
    /\ rd.pcE = "user"
    /\ IF rd.userId \notin Accounts
       THEN rd' = [rd EXCEPT !.pcE = "failed"]
       ELSE rd' = [rd EXCEPT !.startE = users[rd.userId].startingBalance, !.pcE = "txns"]
    /\ UNCHANGED <<users, log, version, locked, now, nextId, pc, call, result, ops, analytics>>

\* getEquityTimeSeries lines 185-187: read the committed transactions of the user
EquityReadTxns ==
    /\ rd.pcE = "txns"
    /\ \E sorted \in SortsByCreatedAt(UserTxns(log, rd.userId)) :
         rd' = [rd EXCEPT !.logE = sorted, !.pcE = "done"]
    /\ UNCHANGED <<users, log, version, locked, now, nextId, pc, call, result, ops, analytics>>

\* every part of the read has finished (or thrown)
ReadFinished ==
    /\ rd.pcP \in {"idle", "done", "failed"}
    /\ rd.pcE \in {"idle", "done", "failed"}

\* line 275, await Promise.all: settled once a part has thrown or every part is done
ReadSettled ==
    /\ rd.op # "none"
    /\ \/ rd.pcP = "failed"
       \/ rd.pcE = "failed"
       \/ rd.pcP \in {"idle", "done"} /\ rd.pcE \in {"idle", "done"}

\* the read returns to its caller; when a part has thrown, the other part is not
\* awaited and runs on after the return
EndRead ==
    /\ ReadSettled
    /\ rd' = IF ReadFinished THEN NoRead ELSE [rd EXCEPT !.op = "none"]
    /\ UNCHANGED <<users, log, version, locked, now, nextId, pc, call, result, ops, analytics>>

Read ==
    \/ StartRead
    \/ PortfolioReadUser
    \/ PortfolioReadTxns
    \/ EquityReadUser
    \/ EquityReadTxns
    \/ EndRead

Next == (\E p \in Procs : executeTrade(p)) \/ Read

Spec == Init /\ [][Next]_vars

(***************************************************************************)
(* Ledger properties                                                       *)
(***************************************************************************)
RECURSIVE BalanceAfter(_, _)
\* the balance the commits of a transaction sequence leave of an opening balance: each
\* BUY debited (line 70) and each SELL credited (line 94), in the order of the commits
BalanceAfter(opening, txns) ==
    IF txns = <<>> THEN opening
    ELSE LET t == txns[Len(txns)]
             before == BalanceAfter(opening, SubSeq(txns, 1, Len(txns) - 1))
         IN  IF t.type = "SELL" THEN Credit(before, t.totalAmount)
             ELSE Debit(before, t.totalAmount)

(***************************************************************************)
(* Sums of money without rounding. The size of an amount times 2^Scale is  *)
(* a whole number, written in WideLen words of 28 bits, the lowest first:  *)
(* every double from 2^-Scale up and below 2^Scale has such a number.      *)
(***************************************************************************)
Scale == 3 * 28

WideLen == 2 * (Scale \div 28)

\* x < 0
Negative(x) == IF InBits(x) THEN x.neg ELSE x.n < 0

\* the size of x is Significand(x) * 2^Exponent(x), the significand in two words
Significand(x) ==
    IF InBits(x) THEN x.m ELSE <<Abs(x.n) \div Word, Abs(x.n) % Word>>

Exponent(x) == IF InBits(x) THEN x.e ELSE 0 - (CHOOSE k \in 0..30 : x.d = 2^k)

\* the two words v times 2^r, r below 28: three words, the lowest first
ShiftedWords(v, r) ==
    << (v[2] % 2^(28 - r)) * 2^r,
       (v[1] % 2^(28 - r)) * 2^r + v[2] \div 2^(28 - r),
       v[1] \div 2^(28 - r) >>

\* the size of x times 2^Scale
Wide(x) ==
    LET s == Exponent(x) + Scale
        shifted == ShiftedWords(Significand(x), s % 28)
    IN  [k \in 1..WideLen |-> IF k - s \div 28 \in 1..3 THEN shifted[k - s \div 28] ELSE 0]

RECURSIVE AddWide(_, _, _, _)
\* a + b from word k on, with what the words below carry
AddWide(a, b, k, carry) ==
    IF k > WideLen THEN <<>>
    ELSE <<(a[k] + b[k] + carry) % Word>>
             \o AddWide(a, b, k + 1, (a[k] + b[k] + carry) \div Word)

ZeroWide == [k \in 1..WideLen |-> 0]

RECURSIVE SideSum(_, _)
\* the sum of the terms of one side of an equation; a term below 0 is moved to the
\* other side, so that every sum is one of sizes
SideSum(terms, left) ==
    IF terms = <<>> THEN AddWide(ZeroWide, ZeroWide, 1, 0)
    ELSE LET term == terms[Len(terms)]
             rest == SideSum(SubSeq(terms, 1, Len(terms) - 1), left)
         IN  IF (term.left # Negative(term.x)) = left
             THEN AddWide(rest, Wide(term.x), 1, 0)
             ELSE rest

\* balance = start + the totalAmount of the SELLs - the totalAmount of the BUYs, as an
\* equation of the numbers themselves: balance + BUYs = start + SELLs
LedgerBalanced(balance, start, txns) ==
    LET terms == << [x |-> balance, left |-> TRUE], [x |-> start, left |-> FALSE] >>
                    \o [k \in 1..Len(txns) |->
                           [x |-> txns[k].totalAmount, left |-> txns[k].type = "BUY"]]
    IN  SideSum(terms, TRUE) = SideSum(terms, FALSE)

\* the symbols a trade can name
Symbols == {NormalizeSymbol(s) : s \in RawSymbols} \ {<<>>}

IsPrefix(s, t) == Len(s) <= Len(t) /\ SubSeq(t, 1, Len(s)) = s

\* slot p takes a step of its call
Steps(p) == pc'[p] # pc[p]

\* C1 (as claimed). Ledger consistency: in every reachable state the stored balance of
\* an account is exactly its startingBalance plus the totalAmount of its committed
\* SELLs minus the totalAmount of its committed BUYs.
C1_LedgerConsistencyClaim ==
    \A u \in Accounts :
        LedgerBalanced(users[u].balance, users[u].startingBalance, UserTxns(log, u))

\* The writes a call has made inside its open transaction are not in the committed
\* store: account and log still equal the call's snapshot.
C2_PendingInvisible ==
    \A p \in Procs :
        pc[p] \in {"create", "commit"} =>
            /\ users[call[p].userId].balance = call[p].snapBalance
            /\ log = call[p].snapLog
            /\ call[p].balance # call[p].snapBalance

\* C2. Atomic commit: the committed balance and the committed log only ever change
\* together; while a call holds uncommitted writes the committed account and log are
\* exactly what its snapshot showed; a step that fails (user.save, Transaction.create
\* or commitTransaction throwing) changes neither.
C2_AtomicCommit ==
    /\ []C2_PendingInvisible
    /\ [][(users' # users) <=> (log' # log)]_vars
    /\ [][\A p \in Procs : (Steps(p) /\ pc'[p] = "catch") => UNCHANGED <<users, log>>]_vars

\* a call whose user.save succeeded has failed afterwards: it still holds its write
\* on the account and is about to abort
C2_Witness ==
    \E p \in Procs :
        /\ pc[p] = "catch"
        /\ call[p].err = ErrStore
        /\ \E u \in Accounts : locked[u] = p

\* The BUY in slot p and the BUY in slot q were issued against the same balance of the
\* same account, which covers either of them and not both.
RacingBuys(p, q) ==
    LET b == call[p].snapBalance
    IN  /\ p # q
        /\ pc[p] \in {"save", "create", "commit"}
        /\ call[p].type = "BUY" /\ call[p].userId \in Accounts
        /\ Greater(call[p].totalAmount, Num(0))
        /\ \/ /\ pc[q] \in {"save", "create", "commit"}
              /\ call[q].type = "BUY" /\ call[q].userId = call[p].userId
              /\ call[q].snapBalance = b
              /\ Greater(call[q].totalAmount, Num(0))
              /\ Greater(Add(call[p].totalAmount, call[q].totalAmount), b)
           \/ /\ pc[q] = "finally"
              /\ result[q].success /\ result[q].type = "BUY"
              /\ Greater(result[q].totalAmount, Num(0))
              /\ result[q].newBalance = Debit(b, result[q].totalAmount)
              /\ Greater(Add(call[p].totalAmount, result[q].totalAmount), b)

\* C3 (as claimed). Of the concurrent BUYs issued against a balance that covers exactly
\* one of them, at most one succeeds, and every other one fails with 'Insufficient
\* balance' (a failure of the store itself set aside).
C3_ConcurrentBuysClaim ==
    /\ [][\A p, q \in Procs :
            (RacingBuys(p, q) /\ pc[q] = "finally" /\ Steps(p) /\ pc'[p] = "finally")
                => ~result'[p].success]_vars
    /\ [][\A p, q \in Procs :
            (RacingBuys(p, q) /\ Steps(p) /\ pc'[p] = "catch")
                => call'[p].err \in {ErrInsufficientBalance, ErrStore}]_vars

\* C4. No interleaving of the calls of one user drives the committed balance below 0
\* or the committed net quantity of a symbol (BUY positive, SELL negative) below 0.
C4_NoNegativeBalanceNoOversell ==
    \A u \in Accounts :
        /\ LessEq(Num(0), users[u].balance)
        /\ \A sym \in Symbols : NetQuantity(SelectTxns(log, u, sym)) >= 0

\* two calls interleaved their read-validate-write sequences: one committed a SELL
\* that emptied the position, the other lost the race for the account
C4_Witness ==
    \E p \in Procs :
        /\ pc[p] = "catch"
        /\ call[p].err = ErrWriteConflict
        /\ \E i \in 1..Len(log) :
             /\ log[i].type = "SELL"
             /\ NetQuantity(SelectTxns(log, log[i].userId, log[i].symbol)) = 0

\* C5. No overdraft: a BUY that loads an account whose balance is below its
\* totalAmount throws 'Insufficient balance' at once, the step changes neither the
\* balance nor the log, and the call returns success = false with that message
\* without touching them.
C5_NoOverdraft ==
    /\ [][\A p \in Procs :
            (/\ pc[p] = "load" /\ Steps(p)
             /\ call[p].type = "BUY" /\ call[p].userId \in Accounts
             /\ Less(users[call[p].userId].balance, call[p].totalAmount)
             /\ call'[p].err # ErrStore)
            => /\ pc'[p] = "catch"
               /\ call'[p].err = ErrInsufficientBalance
               /\ UNCHANGED <<users, log>>]_vars
    /\ [][\A p \in Procs :
            (pc[p] = "catch" /\ Steps(p) /\ call[p].err = ErrInsufficientBalance)
            => /\ pc'[p] = "finally"
               /\ ~result'[p].success
               /\ result'[p].error = ErrInsufficientBalance
               /\ UNCHANGED <<users, log>>]_vars

\* a BUY has been refused for lack of cash and its failure result is built
C5_Witness ==
    \E p \in Procs :
        /\ pc[p] = "finally"
        /\ ~result[p].success
        /\ result[p].error = ErrInsufficientBalance

\* every prefix of the log holds no symbol short
NeverShort(txns) ==
    \A n \in 0..Len(txns) : \A u \in Accounts : \A sym \in Symbols :
        NetQuantity(SelectTxns(SubSeq(txns, 1, n), u, sym)) >= 0

\* C6. No oversell: a SELL of quantity q for a symbol whose committed signed quantity,
\* in the state the call reads, is below q throws 'Insufficient holdings' and changes
\* neither the balance nor the log; and no committed SELL ever leaves a symbol's net
\* quantity below zero.
C6_NoOversell ==
    /\ []NeverShort(log)
    /\ [][\A p \in Procs :
            (/\ pc[p] = "find" /\ Steps(p)
             /\ NetQuantity(SelectTxns(call[p].snapLog, call[p].userId, call[p].symbol))
                    < call[p].quantity
             /\ call'[p].err # ErrStore)
            => /\ pc'[p] = "catch"
               /\ call'[p].err = ErrInsufficientHoldings
               /\ UNCHANGED <<users, log>>]_vars

\* a SELL has been refused for lack of holdings while the account does hold the
\* symbol, only less of it
C6_Witness ==
    \E p \in Procs :
        /\ pc[p] = "catch"
        /\ call[p].err = ErrInsufficientHoldings
        /\ \E sym \in Symbols : NetQuantity(SelectTxns(log, "u1", sym)) = 1

\* C7 (as claimed). A call only gets past the price fetch with a strictly positive
\* price, so every committed transaction has price > 0.
C7_PositivePriceClaim ==
    /\ \A p \in Procs :
         pc[p] \in {"load", "find", "save", "create", "commit"}
             => Greater(call[p].price, Num(0))
    /\ \A i \in 1..Len(log) : Greater(log[i].price, Num(0))

\* The order in which a call passes its stages; no pair leads back (no retry).
StageOrder ==
    { <<"idle", "price">>, <<"idle", "catch">>, <<"price", "load">>, <<"price", "catch">>,
      <<"load", "find">>, <<"load", "save">>, <<"load", "catch">>,
      <<"find", "save">>, <<"find", "catch">>, <<"save", "create">>, <<"save", "catch">>,
      <<"create", "commit">>, <<"create", "catch">>, <<"commit", "finally">>,
      <<"commit", "catch">>, <<"catch", "finally">>, <<"finally", "idle">> }

\* C8. A call that returns success has, in the one step that committed it, changed
\* the balance once and appended one transaction, and its result reports that
\* transaction's id, price and totalAmount = price * quantity and the balance stored
\* by the commit; a call that returns failure built its result in a step that left
\* balance and log alone; no other step of any call touches them, and a call never
\* goes back to an earlier stage.
C8_OneMutationPerSuccess ==
    /\ [][\A p \in Procs :
            (Steps(p) /\ pc'[p] = "finally") =>
                IF result'[p].success
                THEN LET r == result'[p]
                         u == call[p].userId
                     IN  /\ Len(log') = Len(log) + 1
                         /\ SubSeq(log', 1, Len(log)) = log
                         /\ log'[Len(log')].id = r.transactionId
                         /\ log'[Len(log')].price = r.price
                         /\ log'[Len(log')].totalAmount = r.totalAmount
                         /\ log'[Len(log')].quantity = r.quantity
                         /\ r.totalAmount = Mul(r.price, Num(r.quantity))
                         /\ users'[u].balance = r.newBalance
                         /\ users'[u].balance # users[u].balance
                         /\ \A v \in Accounts \ {u} : users'[v] = users[v]
                ELSE UNCHANGED <<users, log>>]_vars
    /\ [][(\A p \in Procs : ~(Steps(p) /\ pc'[p] = "finally")) => UNCHANGED <<users, log>>]_vars
    /\ [][\A p \in Procs : Steps(p) => <<pc[p], pc'[p]>> \in StageOrder]_vars

\* a SELL has committed and its success result is built
C8_Witness ==
    \E p \in Procs :
        /\ pc[p] = "finally"
        /\ result[p].success
        /\ result[p].type = "SELL"
        /\ result[p].newBalance = users["u1"].balance

\* C9 (as claimed). What a read returns comes from one committed prefix of the ledger:
\* the balance getUserPortfolio read is the balance of the transactions it read, and
\* the transactions getEquityTimeSeries read for the same snapshot are the same ones.
C9_ReadsOnePrefixClaim ==
    /\ rd.pcP = "done" => LedgerBalanced(rd.balance, rd.startP, rd.logP)
    /\ (rd.pcP = "done" /\ rd.pcE = "done") => rd.logE = rd.logP

\* C10. The transaction log is append-only: every step of every operation leaves the
\* committed log a prefix of what it becomes.
C10_AppendOnly == [][IsPrefix(log, log')]_vars

\* the log holds at least two trades and a call has just appended the last one
C10_Witness ==
    /\ Len(log) >= 2
    /\ log[Len(log)].id >= 2
    /\ \E p \in Procs : pc[p] = "finally" /\ result[p].success


(***************************************************************************)
(* Map<string, V>: the entries in insertion order                          *)
(***************************************************************************)
MapHas(m, k) == \E j \in 1..Len(m) : m[j].key = k

MapGet(m, k) == m[CHOOSE j \in 1..Len(m) : m[j].key = k].value

\* set keeps the place of a key already present and appends a new one
MapSet(m, k, v) ==
    IF MapHas(m, k)
    THEN [j \in 1..Len(m) |-> IF m[j].key = k THEN [key |-> k, value |-> v] ELSE m[j]]
    ELSE Append(m, [key |-> k, value |-> v])

RECURSIVE MapDelete(_, _)
MapDelete(m, k) ==
    IF m = <<>> THEN <<>>
    ELSE IF Head(m).key = k THEN MapDelete(Tail(m), k)
         ELSE <<Head(m)>> \o MapDelete(Tail(m), k)

(***************************************************************************)
(* Inputs of the replays: what Transaction.find(...).sort({createdAt: 1})  *)
(* returned                                                                *)
(***************************************************************************)
\* longest transaction list replayed
MaxTxns == 3

\* the sequences over S of length at most n
SeqsUpTo(S, n) == UNION { [1..k -> S] : k \in 0..n }

\* the ledger with the opened account and nothing running
TradingIdle ==
    /\ users = [u \in Accounts |-> [balance |-> Num(OpeningBalance),
                                    startingBalance |-> Num(OpeningBalance)]]
    /\ log = <<>>
    /\ version = [u \in Accounts |-> 0]
    /\ nextId = 1
    /\ locked = [u \in Accounts |-> NoProc]
    /\ now = 0
    /\ pc = [p \in Procs |-> "idle"]
    /\ call = [p \in Procs |-> NoCall]
    /\ result = [p \in Procs |-> NoResult]
    /\ ops = 0
    /\ rd = NoRead

\* a transaction document as the replay reads it
TradeDoc(symbol, type, quantity, price, createdAt) ==
    [ symbol |-> symbol, type |-> type, quantity |-> Num(quantity), price |-> Num(price),
      totalAmount |-> Num(price * quantity), createdAt |-> createdAt ]

(***************************************************************************)
(* getUserPortfolio: the position replay (portfolio.service.ts 52-101)     *)
(***************************************************************************)
ReplayDocs ==
    { TradeDoc(s, ty, q, p, 0) : s \in Symbols, ty \in {"BUY", "SELL"},
                                 q \in 1..MaxQty, p \in 1..MaxPrice }

\* a replay that keeps the state of a symbol whatever its quantity
FullyClosedNever(quantity) == FALSE

\* line 77: state.quantity <= 0
FullyClosed(quantity) == LessEq(quantity, Num(0))

\* line 73: avgCostBeforeSell * txn.quantity, rounded to a double
CostSold(avgCostBeforeSell, txn) == Mul(avgCostBeforeSell, txn.quantity)

\* lines 57-81: the body of the replay loop. The quantities and amounts of the
\* documents are whole numbers, which doubles add and subtract without error, so
\* quantity is carried as the number it is; totalCost is carried as the double it is,
\* each division, product and difference of lines 71-74 being rounded.
ReplayTxn(symbolState, txn) ==
    LET symbol == txn.symbol
    IN  IF txn.type = "BUY"
        THEN LET state == IF MapHas(symbolState, symbol) THEN MapGet(symbolState, symbol)
                          ELSE [quantity |-> Num(0), totalCost |-> Num(0)]
             IN  MapSet(symbolState, symbol,
                        [quantity |-> Plus(state.quantity, txn.quantity),
                         totalCost |-> Add(state.totalCost, txn.totalAmount)])
        ELSE IF txn.type = "SELL" /\ MapHas(symbolState, symbol)
        THEN LET state == MapGet(symbolState, symbol)
                 avgCostBeforeSell == IF Greater(state.quantity, Num(0))
                                      THEN Div(state.totalCost, state.quantity)
                                      ELSE Num(0)
                 totalCost == Sub(state.totalCost, CostSold(avgCostBeforeSell, txn))
                 quantity == Minus(state.quantity, txn.quantity)
             IN  IF FullyClosed(quantity)
                 THEN MapDelete(symbolState, symbol)
                 ELSE MapSet(symbolState, symbol,
                             [quantity |-> quantity, totalCost |-> totalCost])
        ELSE symbolState

RECURSIVE ReplayPositions(_)
\* lines 52-82: the loop over the whole list
ReplayPositions(transactions) ==
    IF transactions = <<>> THEN <<>>
    ELSE ReplayTxn(ReplayPositions(SubSeq(transactions, 1, Len(transactions) - 1)),
                   transactions[Len(transactions)])

RECURSIVE ActiveSymbols(_)
\* lines 85-101: the entries left with a positive quantity, with their average cost,
\* the double of line 94
ActiveSymbols(symbolState) ==
    IF symbolState = <<>> THEN <<>>
    ELSE LET state == Head(symbolState).value
             rest == ActiveSymbols(Tail(symbolState))
         IN  IF LessEq(state.quantity, Num(0)) THEN rest
             ELSE << [ symbol |-> Head(symbolState).key,
                       netQty |-> state.quantity,
                       avgCost |-> IF Greater(state.quantity, Num(0))
                                   THEN Div(state.totalCost, state.quantity)
                                   ELSE Num(0) ] >> \o rest

ReplayInit ==
    /\ modal = NoModal
    /\ TradingIdle
    /\ sectorCache = <<>>
    /\ \E transactions \in SeqsUpTo(ReplayDocs, MaxTxns) :
         replay = [NoReplay EXCEPT !.pc = "loop", !.transactions = transactions]
    /\ curve = NoCurve
    /\ snapshot = NoSnapshot
    /\ daily = NoDaily

\* one pass of the loop of lines 57-82
ReplayLoop ==
    /\ replay.pc = "loop"
    /\ replay.i < Len(replay.transactions)
    /\ replay' = [replay EXCEPT !.i = replay.i + 1,
                                !.symbolState = ReplayTxn(replay.symbolState,
                                                          replay.transactions[replay.i + 1])]
    /\ UNCHANGED <<trading, modal, sectorCache, curve, snapshot, daily>>

\* lines 84-101: the loop is over, the active positions are collected
ReplayCollect ==
    /\ replay.pc = "loop"
    /\ replay.i = Len(replay.transactions)
    /\ replay' = [replay EXCEPT !.pc = "done",
                                !.activeSymbols = ActiveSymbols(replay.symbolState)]
    /\ UNCHANGED <<trading, modal, sectorCache, curve, snapshot, daily>>

ReplayNext == ReplayLoop \/ ReplayCollect

ReplaySpec == ReplayInit /\ [][ReplayNext]_vars

(***************************************************************************)
(* Position replay properties                                              *)
(***************************************************************************)
RECURSIVE RunningQty(_, _)
\* the quantity of symbol s held after the list: a BUY adds, a SELL takes away, and a
\* SELL that would leave nothing (or less) leaves 0
RunningQty(txns, s) ==
    IF txns = <<>> THEN 0
    ELSE LET t == txns[Len(txns)]
             prev == RunningQty(SubSeq(txns, 1, Len(txns) - 1), s)
         IN  IF t.symbol # s THEN prev
             ELSE IF t.type = "BUY" THEN prev + t.quantity.n
             ELSE IF t.type = "SELL" /\ prev - t.quantity.n > 0 THEN prev - t.quantity.n
             ELSE IF t.type = "SELL" THEN 0
             ELSE prev

\* transaction j of the list is a SELL of s that brings its running quantity to 0 or below
ClosesAt(txns, s, j) ==
    /\ txns[j].symbol = s
    /\ txns[j].type = "SELL"
    /\ RunningQty(SubSeq(txns, 1, j - 1), s) - txns[j].quantity.n <= 0

\* the place of the last such SELL in the list, 0 when there is none
LastClose(txns, s) ==
    LET closes == {j \in 1..Len(txns) : ClosesAt(txns, s, j)}
    IN  IF closes = {} THEN 0 ELSE CHOOSE j \in closes : \A k \in closes : k <= j

\* the state the replay holds for symbol s: absent, or its quantity and cost basis
StateOf(symbolState, s) ==
    IF MapHas(symbolState, s) THEN <<MapGet(symbolState, s)>> ELSE <<>>

\* the transactions the replay has gone through so far
Replayed == SubSeq(replay.transactions, 1, replay.i)

\* BUY 10 @ 10, SELL 10 @ 15, BUY 5 @ 20 leaves 5 held at an average cost of 20
C11_Example ==
    ActiveSymbols(ReplayPositions(<< TradeDoc(<<"A">>, "BUY", 10, 10, 0),
                                     TradeDoc(<<"A">>, "SELL", 10, 15, 0),
                                     TradeDoc(<<"A">>, "BUY", 5, 20, 0) >>))
        = << [symbol |-> <<"A">>, netQty |-> Num(5), avgCost |-> Num(20)] >>

\* C11. Full close resets the cost basis: a pass of the replay loop over a SELL that
\* brings the symbol's running quantity to 0 or below leaves no state for the symbol,
\* and at every point of the replay the state held for a symbol is the one a replay of
\* only the transactions after the symbol's last such SELL gives; BUY 10 @ 10,
\* SELL 10 @ 15, BUY 5 @ 20 yields netQty 5 at avgCost 20.
C11_FullCloseResets ==
    /\ [](\A s \in Symbols :
            LET c == LastClose(Replayed, s)
            IN  /\ StateOf(replay.symbolState, s)
                     = StateOf(ReplayPositions(SubSeq(Replayed, c + 1, replay.i)), s)
                /\ (c = replay.i /\ c > 0) => ~MapHas(replay.symbolState, s))
    /\ [][\A s \in Symbols :
            (replay'.i = replay.i + 1 /\ ClosesAt(replay.transactions, s, replay'.i))
                => ~MapHas(replay'.symbolState, s)]_vars
    /\ []C11_Example

\* the replay has finished a list in which A was bought, sold out and bought again at
\* another price, and reports the position at the price of the last purchase only
C11_Witness ==
    /\ replay.pc = "done"
    /\ replay.transactions = << TradeDoc(<<"A">>, "BUY", 2, 1, 0),
                                TradeDoc(<<"A">>, "SELL", 2, 2, 0),
                                TradeDoc(<<"A">>, "BUY", 1, 2, 0) >>
    /\ replay.activeSymbols
         = << [symbol |-> <<"A">>, netQty |-> Num(1), avgCost |-> Num(2)] >>

\* totalCost / quantity of the state held for a symbol, as line 94 divides
AvgCost(state) == Div(state.totalCost, state.quantity)

\* the pass of the loop just made went over transaction replay'.i
ReplayPass == replay'.i = replay.i + 1

\* BUY 100 @ 150 then SELL 50 @ 160 leaves 50 held at an average cost of 150
C12_Example ==
    ActiveSymbols(ReplayPositions(<< TradeDoc(<<"A">>, "BUY", 100, 150, 0),
                                     TradeDoc(<<"A">>, "SELL", 50, 160, 0) >>))
        = << [symbol |-> <<"A">>, netQty |-> Num(50), avgCost |-> Num(150)] >>

\* C12 (as claimed). Weighted-average cost: a pass of the replay loop over a SELL that
\* leaves the symbol with a positive quantity leaves totalCost / quantity as it was; a
\* pass over a BUY makes it (old totalCost + totalAmount) / (old quantity + bought
\* quantity); the positions reported at the end are exactly the symbols whose replayed
\* quantity is above 0, each with that quantity and avgCost = totalCost / quantity;
\* BUY 100 @ 150 then SELL 50 @ 160 yields netQty 50 at avgCost 150.
C12_WeightedAverageCostClaim ==
    /\ [][ReplayPass =>
            LET txn == replay.transactions[replay'.i]
                s == txn.symbol
                old == IF MapHas(replay.symbolState, s) THEN MapGet(replay.symbolState, s)
                       ELSE [quantity |-> Num(0), totalCost |-> Num(0)]
            IN  /\ (txn.type = "SELL" /\ MapHas(replay.symbolState, s)
                        /\ MapHas(replay'.symbolState, s))
                     => AvgCost(MapGet(replay'.symbolState, s)) = AvgCost(old)
                /\ txn.type = "BUY"
                     => /\ MapHas(replay'.symbolState, s)
                        /\ AvgCost(MapGet(replay'.symbolState, s))
                             = Div(Add(old.totalCost, txn.totalAmount),
                                   Plus(old.quantity, txn.quantity))]_vars
    /\ [](replay.pc = "done" =>
            /\ {replay.activeSymbols[k].symbol : k \in 1..Len(replay.activeSymbols)}
                 = {s \in Symbols : RunningQty(replay.transactions, s) > 0}
            /\ \A k \in 1..Len(replay.activeSymbols) :
                 LET a == replay.activeSymbols[k]
                 IN  /\ a.netQty = Num(RunningQty(replay.transactions, a.symbol))
                     /\ a.avgCost = AvgCost(MapGet(replay.symbolState, a.symbol))
            /\ \A k, l \in 1..Len(replay.activeSymbols) :
                 replay.activeSymbols[k].symbol = replay.activeSymbols[l].symbol => k = l)
    /\ []C12_Example

\* the part of C12 about a SELL that leaves the symbol held, taken alone
C12_PartialSellKeepsAvgCost ==
    [][ReplayPass =>
          LET txn == replay.transactions[replay'.i]
              s == txn.symbol
          IN  (txn.type = "SELL" /\ MapHas(replay.symbolState, s)
                  /\ MapHas(replay'.symbolState, s))
                => AvgCost(MapGet(replay'.symbolState, s))
                     = AvgCost(MapGet(replay.symbolState, s))]_vars

\* everything C12 says but that part
C12_BuysAndPositions ==
    /\ [][ReplayPass =>
            LET txn == replay.transactions[replay'.i]
                s == txn.symbol
                old == IF MapHas(replay.symbolState, s) THEN MapGet(replay.symbolState, s)
                       ELSE [quantity |-> Num(0), totalCost |-> Num(0)]
            IN  txn.type = "BUY"
                     => /\ MapHas(replay'.symbolState, s)
                        /\ AvgCost(MapGet(replay'.symbolState, s))
                             = Div(Add(old.totalCost, txn.totalAmount),
                                   Plus(old.quantity, txn.quantity))]_vars
    /\ [](replay.pc = "done" =>
            /\ {replay.activeSymbols[k].symbol : k \in 1..Len(replay.activeSymbols)}
                 = {s \in Symbols : RunningQty(replay.transactions, s) > 0}
            /\ \A k \in 1..Len(replay.activeSymbols) :
                 LET a == replay.activeSymbols[k]
                 IN  a.netQty = Num(RunningQty(replay.transactions, a.symbol)))
    /\ []C12_Example

\* the replay has finished a list that bought A twice at different prices and then
\* sold a part: the cost basis left is 10/3 less one rounding step, and the average
\* cost reported is a step below the 5/3 the position had before the SELL
C12_Diverges ==
    /\ replay.pc = "done"
    /\ replay.transactions = << TradeDoc(<<"A">>, "BUY", 1, 1, 0),
                                TradeDoc(<<"A">>, "BUY", 2, 2, 0),
                                TradeDoc(<<"A">>, "SELL", 1, 1, 0) >>
    /\ Len(replay.activeSymbols) = 1
    /\ replay.activeSymbols[1].netQty = Num(2)
    /\ replay.activeSymbols[1].avgCost # Nearest(Frac(5, 3))
    /\ Add(replay.activeSymbols[1].avgCost,
           Mul(Frac(1, 2^26), Frac(1, 2^26))) = Nearest(Frac(5, 3))

(***************************************************************************)
(* The equity curve: getEquityTimeSeries (part_001 174-229) and the equity *)
(* route GET (part_004 18-150)                                             *)
(***************************************************************************)
\* instants of the clock in one calendar day
TicksPerDay == 2

\* createdAt of a document that has none; sort({createdAt: 1}) puts such documents first
NoDate == 0 - 1

\* Date.prototype.toISOString: the date part ("YYYY-MM-DD") and the time part
ToISOString(t) == <<t \div TicksPerDay, t % TicksPerDay>>

\* v ?? d
Nullish(v, d) == IF v = Undefined THEN d ELSE v

\* v || d on a number or undefined: undefined, 0 and NaN are falsy
OrJS(v, d) == IF v = Undefined \/ v.nan \/ v = Num(0) THEN d ELSE v

\* Map.prototype.get: undefined for a key that is absent
MapGetJS(m, k) == IF MapHas(m, k) THEN MapGet(m, k) ELSE Undefined

RECURSIVE Pow10(_)
Pow10(digits) == IF digits = 0 THEN 1 ELSE 10 * Pow10(digits - 1)

\* Number(x.toFixed(digits)) of a number a double holds exactly: the nearest multiple
\* of 10^-digits, a tie going away from 0
ToFixed(x, digits) ==
    IF x.nan THEN NaN
    ELSE LET scale == Pow10(digits)
             units == (2 * Abs(x.n) * scale + x.d) \div (2 * x.d)
         IN  Frac((IF x.n < 0 THEN 0 - 1 ELSE 1) * units, scale)

\* Number(x.toFixed(digits)) for a double x below 2^52: the multiple of 10^-digits
\* nearest to the double, the larger one when two are as near
ToFixedDouble(x, digits) ==
    LET scaled == TimesSmall(x.m, Pow10(digits), 0)
        behind == 0 - x.e
        padded == IF Len(scaled) > behind THEN scaled
                  ELSE Zeros(behind + 1 - Len(scaled)) \o scaled
        whole == Len(padded) - behind
    IN  Frac(Value(SubSeq(padded, 1, whole)) + padded[whole + 1], Pow10(digits))

\* whether x lies midway between two multiples of 10^-digits
MidWay(x, digits) ==
    /\ (2 * Abs(x.n) * Pow10(digits)) % x.d = 0
    /\ ((2 * Abs(x.n) * Pow10(digits)) \div x.d) % 2 = 1

\* Number(((value / total) * 100).toFixed(2)) for whole numbers value and total, as
\* quantities times prices and their sums are: the quotient is rounded to a double and
\* so is the product. Off a midway point the exact share rounds as the double does,
\* the double being nearer to the share than the midway point is.
PercentOf(value, total) ==
    LET share == Times(Over(value, total), Num(100))
        ratio == Over(value, total)
    IN  IF share.nan THEN NaN
        ELSE IF ~MidWay(share, 2) THEN ToFixed(share, 2)
        ELSE Times(Num(IF share.n < 0 THEN 0 - 1 ELSE 1),
                   ToFixedDouble(TimesDouble(OverDouble(Abs(ratio.n), ratio.d), 100), 2))

\* the builders: getEquityTimeSeries and the route's GET
CurveOps == {"series", "route"}

\* part_001 182-183 and part_004 44: the startingBalance the curve starts from
StartingBalanceOf(op, stored) ==
    IF op = "series"
    THEN IF TypeOf(stored) = "number" THEN stored ELSE Num(DefaultBalance)
    ELSE Nullish(stored, Num(DefaultBalance))

\* a skip test that lets a totalAmount of 0 through
AmountSkippedBelowZero(totalAmount) ==
    TypeOf(totalAmount) # "number" \/ Less(totalAmount, Num(0))

\* part_001 200, part_004 82-85: typeof totalAmount !== "number" || totalAmount <= 0
AmountSkipped(totalAmount) ==
    TypeOf(totalAmount) # "number" \/ LessEq(totalAmount, Num(0))

\* part_001 199-201, part_004 74-99: the transactions the loop passes over
CurveSkips(txn) ==
    \/ txn.createdAt = NoDate
    \/ AmountSkipped(txn.totalAmount)
    \/ txn.type \notin {"BUY", "SELL"}

\* holdings.get(sym) ?? 0 in the service, holdings.get(sym) || 0 in the route
GetOrZero(op, m, k) ==
    IF op = "series" THEN Nullish(MapGetJS(m, k), Num(0)) ELSE OrJS(MapGetJS(m, k), Num(0))

RECURSIVE HoldingsValue(_, _, _)
\* part_001 217-220, part_004 123-127: the holdings at their last known prices
HoldingsValue(op, holdings, lastPrice) ==
    IF holdings = <<>> THEN Num(0)
    ELSE Add(HoldingsValue(op, SubSeq(holdings, 1, Len(holdings) - 1), lastPrice),
             Mul(holdings[Len(holdings)].value,
                 GetOrZero(op, lastPrice, holdings[Len(holdings)].key)))

\* a point stamped with the time of the call instead of the transaction's createdAt
CurvePointStampedNow(op, createdAt, equity, startingBalance, clock) ==
    IF op = "series"
    THEN [date |-> ToISOString(clock), equity |-> equity]
    ELSE [date |-> ToISOString(clock), pnl |-> ToFixed(Sub(equity, startingBalance), 2)]

\* the point pushed for a transaction: equity in the service, rounded pnl in the route;
\* clock is the time at which the loop runs, which the point does not depend on
CurvePoint(op, createdAt, equity, startingBalance, clock) ==
    IF op = "series"
    THEN [date |-> ToISOString(createdAt), equity |-> equity]
    ELSE [date |-> ToISOString(createdAt), pnl |-> ToFixed(Sub(equity, startingBalance), 2)]

\* part_001 198-226, part_004 72-138: the body of the loop, on the locals
\* [cash, holdings, lastPrice, points], run at time clock
CurveTxn(op, startingBalance, st, txn, clock) ==
    IF CurveSkips(txn) THEN st
    ELSE LET symbol == txn.symbol
             quantity == txn.quantity
             held == GetOrZero(op, st.holdings, symbol)
             cash == IF txn.type = "BUY" THEN Sub(st.cash, txn.totalAmount)
                     ELSE Add(st.cash, txn.totalAmount)
             newQty == Minus(held, quantity)
             holdings == IF txn.type = "BUY"
                         THEN MapSet(st.holdings, symbol, Plus(held, quantity))
                         ELSE IF LessEq(newQty, Num(0))
                              THEN MapDelete(st.holdings, symbol)
                              ELSE MapSet(st.holdings, symbol, newQty)
             lastPrice == MapSet(st.lastPrice, symbol, txn.price)
             equity == Add(cash, HoldingsValue(op, holdings, lastPrice))
         IN  [ cash |-> cash, holdings |-> holdings, lastPrice |-> lastPrice,
               points |-> Append(st.points,
                                 CurvePoint(op, txn.createdAt, equity, startingBalance,
                                            clock)) ]

RECURSIVE CurveLocals(_, _, _, _)
\* the locals after the loop has gone over the list
CurveLocals(op, startingBalance, transactions, clock) ==
    IF transactions = <<>>
    THEN [cash |-> startingBalance, holdings |-> <<>>, lastPrice |-> <<>>, points |-> <<>>]
    ELSE CurveTxn(op, startingBalance,
                  CurveLocals(op, startingBalance,
                              SubSeq(transactions, 1, Len(transactions) - 1), clock),
                  transactions[Len(transactions)], clock)

\* the service answering an empty list the way the route does, with a point of 0
SyntheticPointAsPnl(op, startingBalance, clock) ==
    IF op = "series"
    THEN [date |-> ToISOString(clock), equity |-> Num(0)]
    ELSE [date |-> ToISOString(clock), pnl |-> Num(0)]

\* part_001 189-191, part_004 52-64: the one point returned for an empty list
SyntheticPoint(op, startingBalance, clock) ==
    IF op = "series"
    THEN [date |-> ToISOString(clock), equity |-> startingBalance]
    ELSE [date |-> ToISOString(clock), pnl |-> Num(0)]

\* what a builder returns for a list, reading the clock at `clock`
EquityCurve(op, startingBalance, transactions, clock) ==
    IF Len(transactions) = 0 THEN <<SyntheticPoint(op, startingBalance, clock)>>
    ELSE CurveLocals(op, startingBalance, transactions, clock).points

\* the readings of the clock
Clock == 0..MaxTime

\* well-formed documents, and documents with one defect each: a type outside the enum,
\* a totalAmount that is absent, NaN, 0 or negative, a price or a quantity that is NaN
\* beside a totalAmount that is in order, a createdAt that is absent
CurveDocs ==
    { TradeDoc(s, ty, q, q, t) : s \in Symbols, ty \in {"BUY", "SELL"},
                                 q \in 1..MaxQty, t \in Clock }
    \cup { [TradeDoc(<<"A">>, "BUY", 1, 1, t) EXCEPT !.type = "HOLD"] : t \in Clock }
    \cup { [TradeDoc(<<"A">>, "BUY", 1, 1, t) EXCEPT !.totalAmount = a] :
             t \in Clock, a \in {Undefined, NaN, Num(0)} }
    \cup { TradeDoc(<<"A">>, "BUY", 1, 0 - 1, t) : t \in Clock }
    \cup { [TradeDoc(<<"A">>, "BUY", 1, 1, t) EXCEPT !.price = NaN] : t \in Clock }
    \cup { [TradeDoc(<<"A">>, "BUY", 1, 1, t) EXCEPT !.quantity = NaN] : t \in Clock }
    \cup { TradeDoc(<<"A">>, "BUY", 1, 1, NoDate) }

\* the list is in the order sort({createdAt: 1}) gives
SortedByCreatedAt(txns) ==
    \A k \in 1..(Len(txns) - 1) : txns[k].createdAt <= txns[k + 1].createdAt

\* part_001 182-197, part_004 44-70: a builder that has read the account and the list
\* and stands before its test of the length; cash is declared once the list is found
\* to hold a transaction
CurveStarted(op, stored, transactions) ==
    [NoCurve EXCEPT !.pc = "loop", !.op = op, !.transactions = transactions,
                    !.stored = stored,
                    !.startingBalance = StartingBalanceOf(op, stored),
                    !.cash = IF transactions = <<>> THEN NoCurve.cash
                             ELSE StartingBalanceOf(op, stored)]

CurveInit ==
    /\ modal = NoModal
    /\ TradingIdle
    /\ sectorCache = <<>>
    /\ replay = NoReplay
    /\ \E op \in CurveOps, stored \in {Num(OpeningBalance), Undefined},
          transactions \in SeqsUpTo(CurveDocs, MaxTxns) :
         /\ SortedByCreatedAt(transactions)
         /\ curve = CurveStarted(op, stored, transactions)
    /\ snapshot = NoSnapshot
    /\ daily = NoDaily

\* no transactions: the synthetic point, stamped with the clock
CurveEmpty ==
    /\ curve.pc = "loop"
    /\ Len(curve.transactions) = 0
    /\ \E clock \in Clock :
         curve' = [curve EXCEPT !.pc = "done", !.clock = clock,
                                !.points = <<SyntheticPoint(curve.op, curve.startingBalance, clock)>>]
    /\ UNCHANGED <<trading, modal, sectorCache, replay, snapshot, daily>>

\* one pass of the loop
CurveLoop ==
    /\ curve.pc = "loop"
    /\ curve.i < Len(curve.transactions)
    /\ \E clock \in Clock :
       \E st \in { CurveTxn(curve.op, curve.startingBalance,
                            [cash |-> curve.cash, holdings |-> curve.holdings,
                             lastPrice |-> curve.lastPrice, points |-> curve.points],
                            curve.transactions[curve.i + 1], clock) } :
           curve' = [curve EXCEPT !.i = curve.i + 1, !.cash = st.cash,
                                  !.holdings = st.holdings, !.lastPrice = st.lastPrice,
                                  !.points = st.points]
    /\ UNCHANGED <<trading, modal, sectorCache, replay, snapshot, daily>>

\* the loop is over: the points are returned
CurveReturn ==
    /\ curve.pc = "loop"
    /\ Len(curve.transactions) > 0
    /\ curve.i = Len(curve.transactions)
    /\ curve' = [curve EXCEPT !.pc = "done"]
    /\ UNCHANGED <<trading, modal, sectorCache, replay, snapshot, daily>>

CurveNext == CurveEmpty \/ CurveLoop \/ CurveReturn

CurveSpec == CurveInit /\ [][CurveNext]_vars

(***************************************************************************)
(* The builders and the position replay called twice on one list: a caller *)
(* runs a curve builder, runs it again on the list and the startingBalance *)
(* of the first run, then runs the position replay on the list, and again. *)
(***************************************************************************)
\* longest list the two runs are made on
MaxTwice == 2

\* the documents the position replay takes too: it adds the totalAmount of a BUY, which
\* the store gave a value
TwiceDocs == { doc \in CurveDocs : doc.totalAmount # Undefined }

TwiceInit ==
    /\ modal = NoModal
    /\ TradingIdle
    /\ sectorCache = <<>>
    /\ replay = NoReplay
    /\ \E op \in CurveOps, stored \in {Num(OpeningBalance), Undefined},
          transactions \in SeqsUpTo(TwiceDocs, MaxTwice) :
         /\ SortedByCreatedAt(transactions)
         /\ curve = [CurveStarted(op, stored, transactions) EXCEPT !.run = 1]
    /\ snapshot = NoSnapshot
    /\ daily = NoDaily

\* part_001 174-229, part_004 44-138: the builder that has returned is called again,
\* for the same account and with the list the store returns again
CurveAgain ==
    /\ curve.pc = "done"
    /\ curve.run = 1
    /\ curve' = [CurveStarted(curve.op, curve.stored, curve.transactions) EXCEPT
                   !.run = 2, !.first = curve.points]
    /\ UNCHANGED <<trading, modal, sectorCache, replay, snapshot, daily>>

\* portfolio.service.ts 52-56: the position replay is run on the list
ReplayCalled ==
    /\ curve.pc = "done"
    /\ curve.run = 2
    /\ replay.pc = "idle"
    /\ replay' = [NoReplay EXCEPT !.pc = "loop", !.transactions = curve.transactions,
                                  !.run = 1]
    /\ UNCHANGED <<trading, modal, sectorCache, curve, snapshot, daily>>

\* portfolio.service.ts 52-101: the replay that has returned is run again on its list
ReplayAgain ==
    /\ replay.pc = "done"
    /\ replay.run = 1
    /\ replay' = [NoReplay EXCEPT !.pc = "loop", !.transactions = replay.transactions,
                                  !.run = 2, !.first = replay.activeSymbols]
    /\ UNCHANGED <<trading, modal, sectorCache, curve, snapshot, daily>>

TwiceNext ==
    \/ CurveEmpty \/ CurveLoop \/ CurveReturn \/ CurveAgain
    \/ ReplayCalled \/ ReplayLoop \/ ReplayCollect \/ ReplayAgain

TwiceSpec == TwiceInit /\ [][TwiceNext]_vars

Undated(points) ==
    [k \in 1..Len(points) |-> IF curve.op = "series" THEN points[k].equity ELSE points[k].pnl]

ValidTxn(txn) ==
    /\ txn.createdAt # NoDate
    /\ TypeOf(txn.totalAmount) = "number" /\ Greater(txn.totalAmount, Num(0))
    /\ txn.type \in {"BUY", "SELL"}

\* ISO timestamps in their order as strings: by date part, then by time part
DateLeq(a, b) == a[1] < b[1] \/ (a[1] = b[1] /\ a[2] <= b[2])

\* C14 (as claimed). A curve built from a log that holds transactions has one point
\* for each valid transaction of the log (createdAt present, totalAmount > 0, type BUY
\* or SELL) and no other: the k-th point carries the createdAt of the k-th valid
\* transaction, and the timestamps never decrease.
C14_PointCountAndOrderClaim ==
    (curve.pc = "done" /\ Len(curve.transactions) > 0) =>
        LET valid == SelectSeq(curve.transactions, ValidTxn)
        IN  /\ Len(curve.points) = Len(valid)
            /\ \A k \in 1..Len(curve.points) :
                 k <= Len(valid) => curve.points[k].date = ToISOString(valid[k].createdAt)
            /\ \A k \in 1..(Len(curve.points) - 1) :
                 DateLeq(curve.points[k].date, curve.points[k + 1].date)

\* the locals of the loop and the points pushed so far
CurveLocalsNow ==
    <<curve.cash, curve.holdings, curve.lastPrice, curve.points>>

\* C16 (as claimed). A pass of the loop over a transaction that is not valid (createdAt
\* missing, totalAmount not a positive number, type outside BUY and SELL) emits no
\* point and leaves cash, holdings and lastPrice alone, and the curve returned for a
\* log is the curve of the log with such transactions removed, when any remain.
C16_MalformedAreNoOpsClaim ==
    /\ [][(curve'.i = curve.i + 1 /\ ~ValidTxn(curve.transactions[curve'.i]))
            => CurveLocalsNow' = CurveLocalsNow]_vars
    /\ []((curve.pc = "done" /\ SelectSeq(curve.transactions, ValidTxn) # <<>>) =>
            curve.points = EquityCurve(curve.op, curve.startingBalance,
                                       SelectSeq(curve.transactions, ValidTxn), 0))

\* C17. For a user with no transactions the curve is one synthetic point: in the
\* service its equity is the startingBalance stored on the account, or 100000 when the
\* account stores none; in the route its pnl is 0.
C17_EmptyLogSyntheticPoint ==
    (curve.pc = "done" /\ Len(curve.transactions) = 0) =>
        /\ Len(curve.points) = 1
        /\ curve.op = "series" =>
             curve.points[1].equity
                = (IF curve.stored = Undefined THEN Num(DefaultBalance) ELSE curve.stored)
        /\ curve.op = "route" => curve.points[1].pnl = Num(0)

\* the service has answered for an account without transactions and without a stored
\* startingBalance
C17_Witness ==
    /\ curve.pc = "done"
    /\ curve.op = "series"
    /\ curve.transactions = <<>>
    /\ curve.stored = Undefined
    /\ Len(curve.points) = 1
    /\ curve.points[1].equity = Num(DefaultBalance)

\* a stored transaction as find(...).lean() returns it
LeanDoc(t) ==
    [ symbol |-> t.symbol, type |-> t.type, quantity |-> Num(t.quantity),
      price |-> t.price, totalAmount |-> t.totalAmount, createdAt |-> t.createdAt ]

\* the documents of a list as find(...).lean() returns them, in the order of the list
LeanList(txns) == [k \in 1..Len(txns) |-> LeanDoc(txns[k])]

RECURSIVE LastRecordedPrice(_, _)
\* the price of the latest transaction of symbol s in the list, 0 when there is none
LastRecordedPrice(txns, s) ==
    IF txns = <<>> THEN Num(0)
    ELSE IF txns[Len(txns)].symbol = s THEN txns[Len(txns)].price
         ELSE LastRecordedPrice(SubSeq(txns, 1, Len(txns) - 1), s)

\* the places in the list of the transactions the curve builder does not pass over
Applied(docs) == {k \in 1..Len(docs) : ~CurveSkips(docs[k])}

\* the place in the list of the transaction behind the n-th point
AppliedAt(docs, n) ==
    CHOOSE k \in Applied(docs) : Cardinality({j \in Applied(docs) : j <= k}) = n

\* the transactions of the list the curve builder does not pass over, in order
AppliedTxns(sorted) == SelectSeq(sorted, LAMBDA t : ~CurveSkips(LeanDoc(t)))

\* C15 (as claimed). In the equity curve built from the committed log of an account,
\* the point emitted for a transaction on symbol s at price p differs from the point
\* before it (from startingBalance for the first point) by exactly the quantity of s
\* held before the transaction times (p - the last recorded price of s before it),
\* the quantity and the price being taken from the log before the transaction or from
\* the transactions the curve has a point for; the first point of a log equals
\* startingBalance.
C15_TradesEquityNeutralClaim ==
    \A u \in Accounts : \A sorted \in SortsByCreatedAt(UserTxns(log, u)) :
        LET docs == LeanList(sorted)
            start == users[u].startingBalance
            points == CurveLocals("series", start, docs, 0).points
        IN  \A n \in 1..Len(points) :
                LET k == AppliedAt(docs, n)
                    t == sorted[k]
                    before == SubSeq(sorted, 1, k - 1)
                    held == NetQuantity(SelectTxns(before, u, t.symbol))
                    last == LastRecordedPrice(before, t.symbol)
                    applied == AppliedTxns(before)
                    heldApplied == RunningQty([j \in 1..Len(applied) |-> LeanDoc(applied[j])],
                                              t.symbol)
                    lastApplied == LastRecordedPrice(applied, t.symbol)
                    prev == IF n = 1 THEN start ELSE points[n - 1].equity
                IN  /\ \/ points[n].equity = Add(prev, Mul(Num(held), Sub(t.price, last)))
                       \/ points[n].equity
                            = Add(prev, Mul(Num(heldApplied), Sub(t.price, lastApplied)))
                    /\ n = 1 => points[n].equity = start

(***************************************************************************)
(* buildPortfolioSnapshot: largest position and concentration risk level   *)
(* (part_001 280-303), on the portfolio getUserPortfolio returned          *)
(***************************************************************************)
\* most positions in a portfolio
MaxPositions == 2

\* market values of positions and cash balances of the portfolios looked at
MarketValues == {6250, 6251, 6500, 10000, 10001, 10250}

Balances == {0, 14750, 14999, 15000, 18500, 18749, 18750}

\* the positions of a portfolio: one per symbol
Portfolios ==
    { positions \in SeqsUpTo([symbol : Symbols, marketValue : {Num(v) : v \in MarketValues}],
                             MaxPositions) :
        \A k, l \in 1..Len(positions) : positions[k].symbol = positions[l].symbol => k = l }

RECURSIVE TotalMarketValue(_)
\* portfolio.service.ts 153-156: the sum of the positions' market values
TotalMarketValue(positions) ==
    IF positions = <<>> THEN Num(0)
    ELSE Add(TotalMarketValue(SubSeq(positions, 1, Len(positions) - 1)),
             positions[Len(positions)].marketValue)

RECURSIVE Largest(_)
\* lines 288-290: positions.reduce((a, b) => a.marketValue > b.marketValue ? a : b)
Largest(positions) ==
    IF Len(positions) = 1 THEN positions[1]
    ELSE LET a == Largest(SubSeq(positions, 1, Len(positions) - 1))
             b == positions[Len(positions)]
         IN  IF Greater(a.marketValue, b.marketValue) THEN a ELSE b

\* lines 293-296: the largest position's share of total equity, in percent, to 2 places
AllocationPct(marketValue, totalEquity) ==
    IF Greater(totalEquity, Num(0))
    THEN PercentOf(marketValue, totalEquity)
    ELSE Num(0)

\* lines 286-298: null (here the empty sequence) when there are no positions
LargestPosition(positions, totalEquity) ==
    IF Len(positions) > 0
    THEN << [ symbol |-> Largest(positions).symbol,
              allocationPct |-> AllocationPct(Largest(positions).marketValue, totalEquity) ] >>
    ELSE <<>>

\* thresholds that take in the value they name
ConcentrationRiskLevelInclusive(topAllocation) ==
    IF ~Less(topAllocation, Num(40)) THEN "HIGH"
    ELSE IF ~Less(topAllocation, Num(25)) THEN "MEDIUM"
    ELSE "LOW"

\* lines 302-303: topAllocation > 40 ? "HIGH" : topAllocation > 25 ? "MEDIUM" : "LOW"
ConcentrationRiskLevel(topAllocation) ==
    IF Greater(topAllocation, Num(40)) THEN "HIGH"
    ELSE IF Greater(topAllocation, Num(25)) THEN "MEDIUM"
    ELSE "LOW"

SnapshotInit ==
    /\ modal = NoModal
    /\ TradingIdle
    /\ sectorCache = <<>>
    /\ replay = NoReplay
    /\ curve = NoCurve
    /\ \E positions \in Portfolios, balance \in Balances :
         snapshot = [NoSnapshot EXCEPT !.pc = "built", !.positions = positions,
                                       !.balance = Num(balance),
                                       !.totalEquity = Plus(Num(balance),
                                                            TotalMarketValue(positions))]
    /\ daily = NoDaily

\* lines 285-303: largestPosition, then concentrationRiskLevel from its allocationPct
\* (line 301: largestPosition?.allocationPct ?? 0)
SnapshotConcentration ==
    /\ snapshot.pc = "built"
    /\ LET largestPosition == LargestPosition(snapshot.positions, snapshot.totalEquity)
           topAllocation == IF largestPosition = <<>> THEN Num(0)
                            ELSE largestPosition[1].allocationPct
       IN  snapshot' = [snapshot EXCEPT
                          !.pc = "done",
                          !.largestPosition = largestPosition,
                          !.concentrationRiskLevel = ConcentrationRiskLevel(topAllocation)]
    /\ UNCHANGED <<trading, modal, sectorCache, replay, curve, daily>>

SnapshotNext == SnapshotConcentration

SnapshotSpec == SnapshotInit /\ [][SnapshotNext]_vars

(***************************************************************************)
(* Concentration properties                                                *)
(***************************************************************************)
\* the share of the largest position in total equity, in percent, at full precision
\* (for a portfolio with positions and a positive total equity)
LargestShare ==
    Times(Over(Largest(snapshot.positions).marketValue, snapshot.totalEquity), Num(100))

Concentrated == snapshot.pc = "done" /\ Len(snapshot.positions) > 0

\* C18. Concentration thresholds: the level is MEDIUM when the largest position is
\* exactly 40% of total equity, HIGH at 41%, LOW at exactly 25%, MEDIUM at 26%, and LOW
\* with largestPosition null when there are no positions.
C18_ConcentrationThresholds ==
    /\ (snapshot.pc = "done" /\ Len(snapshot.positions) = 0) =>
         /\ snapshot.largestPosition = <<>>
         /\ snapshot.concentrationRiskLevel = "LOW"
    /\ Concentrated =>
         /\ LargestShare = Num(40) => snapshot.concentrationRiskLevel = "MEDIUM"
         /\ LargestShare = Num(41) => snapshot.concentrationRiskLevel = "HIGH"
         /\ LargestShare = Num(25) => snapshot.concentrationRiskLevel = "LOW"
         /\ LargestShare = Num(26) => snapshot.concentrationRiskLevel = "MEDIUM"

\* a snapshot of a portfolio whose one position is exactly 40% of its equity
C18_Witness ==
    /\ Concentrated
    /\ LargestShare = Num(40)
    /\ snapshot.largestPosition[1].allocationPct = Num(40)
    /\ snapshot.concentrationRiskLevel = "MEDIUM"

\* C19 (as claimed). The level is decided on the full-precision share of the largest
\* position: HIGH for every share above 40%, MEDIUM for every share above 25% and at
\* most 40%, however the share rounds to 2 decimal places.
C19_FullPrecisionLevelClaim ==
    Concentrated =>
        /\ Greater(LargestShare, Num(40)) => snapshot.concentrationRiskLevel = "HIGH"
        /\ (Greater(LargestShare, Num(25)) /\ LessEq(LargestShare, Num(40)))
             => snapshot.concentrationRiskLevel = "MEDIUM"

(***************************************************************************)
(* calculateDailyReturns (part_001 118-140)                                *)
(***************************************************************************)
\* most equity points in a call
MaxPoints == 3

\* calendar days the points fall on
MaxDays == 3

\* largest equity of a point
MaxEquity == 2

\* EquityPoint: date is an ISO timestamp, equity a number
EquityPoints ==
    [ date : {ToISOString(t) : t \in 0..(MaxDays * TicksPerDay - 1)},
      equity : {Num(v) : v \in 0..MaxEquity} ]

\* line 124: p.date.slice(0, 10), the "YYYY-MM-DD" part of the timestamp
Day(date) == date[1]

\* the first value of a day stays
CollapseDayFirstWins(byDay, p) ==
    IF MapHas(byDay, Day(p.date)) THEN byDay ELSE MapSet(byDay, Day(p.date), p.equity)

\* lines 124-125: byDay.set(day, p.equity)
CollapseDay(byDay, p) == MapSet(byDay, Day(p.date), p.equity)

RECURSIVE SortByDay(_)
\* line 129: .sort(([a], [b]) => a.localeCompare(b)); the keys of a Map are distinct
SortByDay(entries) ==
    IF entries = <<>> THEN <<>>
    ELSE LET j == CHOOSE k \in 1..Len(entries) :
                    \A l \in 1..Len(entries) : entries[k].key <= entries[l].key
         IN  <<entries[j]>> \o
             SortByDay(SubSeq(entries, 1, j - 1) \o SubSeq(entries, j + 1, Len(entries)))

\* lines 128-130: the equities of the days, days ascending
DailyEquities(byDay) ==
    LET sorted == SortByDay(byDay)
    IN  [k \in 1..Len(sorted) |-> sorted[k].value]

\* lines 134-136, for the day at place i (counted from 1) and the day before it
PushReturn(returns, dailyEquities, i) ==
    LET prev == dailyEquities[i - 1]
    IN  IF StrictEq(prev, Num(0)) THEN returns
        ELSE Append(returns, Over(Minus(dailyEquities[i], prev), prev))

DailyInit ==
    /\ modal = NoModal
    /\ TradingIdle
    /\ sectorCache = <<>>
    /\ replay = NoReplay
    /\ curve = NoCurve
    /\ snapshot = NoSnapshot
    /\ \E points \in SeqsUpTo(EquityPoints, MaxPoints) :
         daily = [NoDaily EXCEPT !.pc = "called", !.points = points, !.i = 1]

\* line 119: if (points.length < 2) return []
DailyTooFew ==
    /\ daily.pc = "called"
    /\ Len(daily.points) < 2
    /\ daily' = [daily EXCEPT !.pc = "done", !.returns = <<>>]
    /\ UNCHANGED <<trading, modal, sectorCache, replay, curve, snapshot>>

\* lines 123-126: one turn of for (const p of points)
DailyCollapse ==
    /\ daily.pc = "called"
    /\ Len(daily.points) >= 2
    /\ daily.i <= Len(daily.points)
    /\ daily' = [daily EXCEPT !.byDay = CollapseDay(daily.byDay, daily.points[daily.i]),
                              !.i = daily.i + 1]
    /\ UNCHANGED <<trading, modal, sectorCache, replay, curve, snapshot>>

\* lines 128-133: the days sorted, their equities, and let i = 1 (the second day)
DailySort ==
    /\ daily.pc = "called"
    /\ Len(daily.points) >= 2
    /\ daily.i > Len(daily.points)
    /\ daily' = [daily EXCEPT !.pc = "returns",
                              !.dailyEquities = DailyEquities(daily.byDay),
                              !.i = 2]
    /\ UNCHANGED <<trading, modal, sectorCache, replay, curve, snapshot>>

\* lines 133-137: one turn of the loop over consecutive days
DailyReturn ==
    /\ daily.pc = "returns"
    /\ daily.i <= Len(daily.dailyEquities)
    /\ daily' = [daily EXCEPT !.returns = PushReturn(daily.returns, daily.dailyEquities, daily.i),
                              !.i = daily.i + 1]
    /\ UNCHANGED <<trading, modal, sectorCache, replay, curve, snapshot>>

\* line 139: return returns
DailyDone ==
    /\ daily.pc = "returns"
    /\ daily.i > Len(daily.dailyEquities)
    /\ daily' = [daily EXCEPT !.pc = "done"]
    /\ UNCHANGED <<trading, modal, sectorCache, replay, curve, snapshot>>

DailyNext ==
    \/ DailyTooFew
    \/ DailyCollapse
    \/ DailySort
    \/ DailyReturn
    \/ DailyDone

DailySpec == DailyInit /\ [][DailyNext]_vars

(***************************************************************************)
(* Daily-return properties                                                 *)
(***************************************************************************)
\* the calendar days of the points
DaysOf(points) == {Day(points[k].date) : k \in 1..Len(points)}

\* the equity of the last point of day d, in input order
LastOfDay(points, d) ==
    points[CHOOSE k \in 1..Len(points) :
             /\ Day(points[k].date) = d
             /\ \A l \in 1..Len(points) : Day(points[l].date) = d => l <= k].equity

\* the days before d, and the day just before d
DaysBefore(points, d) == {e \in DaysOf(points) : e < d}

DayBefore(points, d) ==
    CHOOSE e \in DaysBefore(points, d) : \A f \in DaysBefore(points, d) : f <= e

\* the days that have a day before them whose equity is not 0: the pairs that are emitted
EmittedDays(points) ==
    { d \in DaysOf(points) :
        /\ DaysBefore(points, d) # {}
        /\ LastOfDay(points, DayBefore(points, d)) # Num(0) }

\* the return of day d over the day before it
ReturnOf(points, d) ==
    LET prev == LastOfDay(points, DayBefore(points, d))
    IN  Over(Minus(LastOfDay(points, d), prev), prev)

\* C20. Daily returns: the points are collapsed to one value per calendar day, the last
\* point of the day in input order, the days are ordered ascending, and for each
\* consecutive pair of days the return (eq[d] - eq[d-1]) / eq[d-1] is emitted, the pair
\* being left out when eq[d-1] is 0; fewer than 2 points or fewer than 2 distinct days
\* give no returns.
C20_DailyReturns ==
    daily.pc = "done" =>
        LET points == daily.points
            emitted == EmittedDays(points)
        IN  /\ (Len(points) < 2 \/ Cardinality(DaysOf(points)) < 2) => daily.returns = <<>>
            /\ Len(points) >= 2 =>
                 /\ Len(daily.returns) = Cardinality(emitted)
                 /\ \A d \in emitted :
                      daily.returns[Cardinality({e \in emitted : e <= d})]
                        = ReturnOf(points, d)

\* a call with two points on one day, given after a point of a later day: the later
\* point of the shared day counts, and the days are put in order
C20_Witness ==
    /\ daily.pc = "done"
    /\ Len(daily.points) = MaxPoints
    /\ Day(daily.points[1].date) > Day(daily.points[2].date)
    /\ Day(daily.points[2].date) = Day(daily.points[3].date)
    /\ daily.points[2].equity # daily.points[3].equity
    /\ daily.points[3].equity # Num(0)
    /\ daily.points[1].equity # daily.points[3].equity
    /\ Len(daily.returns) = 1

(***************************************************************************)
(* buildPortfolioSnapshot: volatility and Sharpe ratio (part_001 145-168,  *)
(* 332-347, 374-375). Math.sqrt and Math.pow are not evaluated: a root or  *)
(* a power that is not 0 is carried as a term over exact operands.         *)
(***************************************************************************)
\* trading days in a year
TradingDays == 252

\* line 164: riskFreeRate = 0.03
RiskFreeRate == Frac(3, 100)

\* a number given by an operation on numbers, NaN when an operand is
Term(op, args) ==
    IF \E k \in 1..Len(args) : args[k].nan THEN NaN
    ELSE [t |-> "number", nan |-> FALSE, op |-> op, args |-> args]

\* a number carried as a fraction rather than as a term
IsFraction(x) == "n" \in DOMAIN x

\* Math.sqrt(x)
Sqrt(x) ==
    IF x.nan THEN NaN
    ELSE IF IsFraction(x) /\ x.n < 0 THEN NaN
    ELSE IF x = Num(0) THEN Num(0)
    ELSE Term("sqrt", <<x>>)

\* x * y where x or y may be a term; 0 times a number is 0
TimesTerm(x, y) ==
    IF x.nan \/ y.nan THEN NaN
    ELSE IF IsFraction(x) /\ IsFraction(y) THEN Times(x, y)
    ELSE IF x = Num(0) \/ y = Num(0) THEN Num(0)
    ELSE Term("*", <<x, y>>)

\* Number(x.toFixed(digits)) where x may be a term
ToFixedTerm(x, digits) ==
    IF IsFraction(x) THEN ToFixed(x, digits) ELSE Term("toFixed", <<x, Num(digits)>>)

RECURSIVE Sum(_)
\* xs.reduce((sum, r) => sum + r, 0)
Sum(xs) ==
    IF xs = <<>> THEN Num(0)
    ELSE Plus(Sum(SubSeq(xs, 1, Len(xs) - 1)), xs[Len(xs)])

RECURSIVE ByDay(_)
\* lines 122-126: the Map after the loop over the points
ByDay(points) ==
    IF points = <<>> THEN <<>>
    ELSE CollapseDay(ByDay(SubSeq(points, 1, Len(points) - 1)), points[Len(points)])

RECURSIVE ReturnsUpTo(_, _)
\* lines 132-137: the returns pushed by the turns i = 2..n of the loop
ReturnsUpTo(dailyEquities, n) ==
    IF n < 2 THEN <<>>
    ELSE PushReturn(ReturnsUpTo(dailyEquities, n - 1), dailyEquities, n)

\* lines 118-140, as one function
calculateDailyReturns(points) ==
    IF Len(points) < 2 THEN <<>>
    ELSE LET dailyEquities == DailyEquities(ByDay(points))
         IN  ReturnsUpTo(dailyEquities, Len(dailyEquities))

RECURSIVE SumOfEqual(_, _)
\* line 149: the sum reduce gives for count doubles x, each addition rounded
SumOfEqual(x, count) ==
    IF count = 1 THEN x ELSE PlusDouble(SumOfEqual(x, count - 1), x)

\* whether two returns, quotients of whole numbers, are the same double
SameDouble(x, y) ==
    \/ x = y
    \/ /\ x.n # 0 /\ y.n # 0 /\ (x.n < 0) = (y.n < 0)
       /\ OverDouble(Abs(x.n), x.d) = OverDouble(Abs(y.n), y.d)

\* lines 149-151: the variance is 0 when every return is the mean that line 149 gives,
\* and only then, a difference that is not 0 having a square that is not 0
VarianceIsZero(dailyReturns) ==
    LET n == Len(dailyReturns)
        first == dailyReturns[1]
        double == OverDouble(Abs(first.n), first.d)
    IN  /\ \A k \in 1..n : SameDouble(dailyReturns[k], first)
        /\ first.n # 0 => OverSmall(SumOfEqual(double, n), n) = double

\* lines 145-155: the mean and the variance are rounded as doubles are, which decides
\* whether the variance is 0; a variance that is not 0 is carried exact, or as a term
\* where it is the rounding that makes it differ from 0
calculateVolatility(dailyReturns) ==
    IF Len(dailyReturns) < 2 THEN Num(0)
    ELSE LET n == Len(dailyReturns)
             mean == Over(Sum(dailyReturns), Num(n))
             variance == Over(Sum([k \in 1..n |-> Times(Minus(dailyReturns[k], mean),
                                                         Minus(dailyReturns[k], mean))]),
                              Num(n - 1))
         IN  IF variance.nan THEN NaN
             ELSE IF VarianceIsZero(dailyReturns) THEN Num(0)
             ELSE IF variance = Num(0)
             THEN TimesTerm(Term("sqrt", <<Term("variance", dailyReturns)>>),
                            Sqrt(Num(TradingDays)))
             ELSE TimesTerm(Sqrt(variance), Sqrt(Num(TradingDays)))

\* the ratio taken whatever the volatility
calculateSharpeUnguarded(annualisedReturn, annualisedVolatility) ==
    Term("/", <<Term("-", <<annualisedReturn, RiskFreeRate>>), annualisedVolatility>>)

\* lines 161-168
calculateSharpe(annualisedReturn, annualisedVolatility) ==
    IF StrictEq(annualisedVolatility, Num(0)) THEN Num(0)
    ELSE Term("/", <<Term("-", <<annualisedReturn, RiskFreeRate>>), annualisedVolatility>>)

\* lines 339-345: the return over the holding period, annualised over the return days
AnnualisedReturn(equityPoints, dailyReturns) ==
    LET firstEquity == IF equityPoints = <<>> THEN Num(0) ELSE equityPoints[1].equity
        lastEquity == IF equityPoints = <<>> THEN Num(0)
                      ELSE equityPoints[Len(equityPoints)].equity
        totalReturn == IF Greater(firstEquity, Num(0))
                       THEN Over(Minus(lastEquity, firstEquity), firstEquity)
                       ELSE Num(0)
        numDays == Len(dailyReturns)
    IN  IF numDays > 0
        THEN Term("-", <<Term("pow", <<Plus(Num(1), totalReturn), Frac(TradingDays, numDays)>>),
                         Num(1)>>)
        ELSE Num(0)

RiskInit ==
    /\ modal = NoModal
    /\ TradingIdle
    /\ sectorCache = <<>>
    /\ replay = NoReplay
    /\ curve = NoCurve
    /\ \E equityPoints \in SeqsUpTo(EquityPoints, MaxPoints) :
         snapshot = [NoSnapshot EXCEPT !.pc = "returns", !.equityPoints = equityPoints]
    /\ daily = NoDaily

\* lines 333-334: const dailyReturns = ..., const annualisedVolatility = ...
SnapshotVolatility ==
    /\ snapshot.pc = "returns"
    /\ LET dailyReturns == calculateDailyReturns(snapshot.equityPoints)
       IN  snapshot' = [snapshot EXCEPT
                          !.pc = "sharpe",
                          !.dailyReturns = dailyReturns,
                          !.annualisedVolatility = calculateVolatility(dailyReturns)]
    /\ UNCHANGED <<trading, modal, sectorCache, replay, curve, daily>>

\* lines 339-347: the annualised return, then calculateSharpe
SnapshotSharpe ==
    /\ snapshot.pc = "sharpe"
    /\ LET annualisedReturn == AnnualisedReturn(snapshot.equityPoints, snapshot.dailyReturns)
       IN  snapshot' = [snapshot EXCEPT
                          !.pc = "round",
                          !.annualisedReturn = annualisedReturn,
                          !.sharpeRatio = calculateSharpe(annualisedReturn,
                                                          snapshot.annualisedVolatility)]
    /\ UNCHANGED <<trading, modal, sectorCache, replay, curve, daily>>

\* lines 374-375: the two figures as returned, to 4 places
SnapshotRisk ==
    /\ snapshot.pc = "round"
    /\ snapshot' = [snapshot EXCEPT
                      !.pc = "done",
                      !.volatility = ToFixedTerm(snapshot.annualisedVolatility, 4),
                      !.sharpeRatio = ToFixedTerm(snapshot.sharpeRatio, 4)]
    /\ UNCHANGED <<trading, modal, sectorCache, replay, curve, daily>>

RiskNext ==
    \/ SnapshotVolatility
    \/ SnapshotSharpe
    \/ SnapshotRisk

RiskSpec == RiskInit /\ [][RiskNext]_vars

(***************************************************************************)
(* Volatility and Sharpe properties                                        *)
(***************************************************************************)
\* the divisors of the divisions in a number carried as a term
RECURSIVE Divisors(_)
Divisors(x) ==
    IF x.nan \/ IsFraction(x) THEN {}
    ELSE (IF x.op = "/" THEN {x.args[2]} ELSE {})
         \cup UNION {Divisors(x.args[k]) : k \in 1..Len(x.args)}

\* C21. The snapshot reports volatility 0 and sharpeRatio 0 whenever the equity curve
\* gives fewer than 2 daily returns, as it does when its points fall on at most two
\* calendar days; and the Sharpe ratio is never a division by a volatility of 0.
C21_ZeroRiskBelowTwoReturns ==
    /\ snapshot.pc = "done" =>
         /\ Cardinality(DaysOf(snapshot.equityPoints)) <= 2 => Len(snapshot.dailyReturns) < 2
         /\ Len(snapshot.dailyReturns) < 2 =>
              /\ snapshot.volatility = Num(0)
              /\ snapshot.sharpeRatio = Num(0)
    /\ snapshot.pc \in {"round", "done"} => Num(0) \notin Divisors(snapshot.sharpeRatio)

\* a snapshot of a curve over two days, which has one daily return and a return over
\* the holding period that is not 0
C21_Witness ==
    /\ snapshot.pc = "done"
    /\ Len(snapshot.dailyReturns) = 1
    /\ snapshot.annualisedReturn # Num(0)
    /\ snapshot.volatility = Num(0)
    /\ snapshot.sharpeRatio = Num(0)

(***************************************************************************)
(* buildPortfolioSnapshot: top gainer and top loser (part_001 349-362)     *)
(***************************************************************************)
\* most positions listed
MaxListed == 3

\* the symbols of listed positions
ListedSymbols == Symbols \cup {<<"C">>}

\* gainPercent of a position (portfolio.service.ts 138-139): a finite number
GainPercents == {Num(0 - 50), Num(0), Num(100)}

\* the listed positions: one per symbol, as the keys of symbolState are distinct
GainerPortfolios ==
    { positions \in SeqsUpTo([symbol : ListedSymbols, gainPercent : GainPercents], MaxListed) :
        \A k, l \in 1..Len(positions) : positions[k].symbol = positions[l].symbol => k = l }

RECURSIVE InsertByGain(_, _)
\* pos put behind every element whose gainPercent is not larger
\* (a.gainPercent - b.gainPercent > 0 moves a behind b)
InsertByGain(sorted, pos) ==
    IF sorted = <<>> THEN <<pos>>
    ELSE IF Greater(Minus(Head(sorted).gainPercent, pos.gainPercent), Num(0))
         THEN <<pos>> \o sorted
         ELSE <<Head(sorted)>> \o InsertByGain(Tail(sorted), pos)

RECURSIVE SortByGain(_)
\* line 354: [...positions].sort((a, b) => a.gainPercent - b.gainPercent); the sort
\* is stable
SortByGain(positions) ==
    IF positions = <<>> THEN <<>>
    ELSE InsertByGain(SortByGain(SubSeq(positions, 1, Len(positions) - 1)),
                      positions[Len(positions)])

\* line 356: the last of the sorted positions
TopGainer(positions) ==
    IF Len(positions) > 0 THEN <<SortByGain(positions)[Len(positions)].symbol>> ELSE <<>>

\* the first of the sorted positions, also when it is the top gainer
TopLoserAlways(positions) ==
    IF Len(positions) > 0 THEN <<SortByGain(positions)[1].symbol>> ELSE <<>>

\* lines 355-361: the first of the sorted positions, null when it is the top gainer
TopLoser(positions) ==
    IF Len(positions) > 0
    THEN IF TopGainer(positions) = <<SortByGain(positions)[1].symbol>> THEN <<>>
         ELSE <<SortByGain(positions)[1].symbol>>
    ELSE <<>>

GainerInit ==
    /\ modal = NoModal
    /\ TradingIdle
    /\ sectorCache = <<>>
    /\ replay = NoReplay
    /\ curve = NoCurve
    /\ \E positions \in GainerPortfolios :
         snapshot = [NoSnapshot EXCEPT !.pc = "gainers", !.positions = positions]
    /\ daily = NoDaily

\* lines 349-362
SnapshotGainers ==
    /\ snapshot.pc = "gainers"
    /\ snapshot' = [snapshot EXCEPT !.pc = "done",
                                    !.topGainer = TopGainer(snapshot.positions),
                                    !.topLoser = TopLoser(snapshot.positions)]
    /\ UNCHANGED <<trading, modal, sectorCache, replay, curve, daily>>

GainerNext == SnapshotGainers

GainerSpec == GainerInit /\ [][GainerNext]_vars

(***************************************************************************)
(* Top gainer / top loser properties                                       *)
(***************************************************************************)
\* the listed position of a symbol
Listed(positions, symbol) ==
    positions[CHOOSE k \in 1..Len(positions) : positions[k].symbol = symbol]

IsListed(positions, symbol) == \E k \in 1..Len(positions) : positions[k].symbol = symbol

\* C22. topGainer is a listed position whose gainPercent is at least that of every
\* listed position and topLoser one whose gainPercent is at most that of every listed
\* position; topLoser is null exactly when fewer than two positions are listed,
\* topGainer exactly when none is; with two or more positions they are different symbols.
C22_TopGainerTopLoser ==
    snapshot.pc = "done" =>
        LET positions == snapshot.positions
            topGainer == snapshot.topGainer
            topLoser == snapshot.topLoser
        IN  /\ (topGainer = <<>>) <=> (Len(positions) = 0)
            /\ (topLoser = <<>>) <=> (Len(positions) < 2)
            /\ topGainer # <<>> =>
                 /\ IsListed(positions, topGainer[1])
                 /\ \A k \in 1..Len(positions) :
                      ~Less(Listed(positions, topGainer[1]).gainPercent, positions[k].gainPercent)
            /\ topLoser # <<>> =>
                 /\ IsListed(positions, topLoser[1])
                 /\ \A k \in 1..Len(positions) :
                      ~Greater(Listed(positions, topLoser[1]).gainPercent, positions[k].gainPercent)
            /\ Len(positions) >= 2 => topGainer # topLoser

\* three positions listed out of order of gain, two of them with the same gain
C22_Witness ==
    /\ snapshot.pc = "done"
    /\ Len(snapshot.positions) = MaxListed
    /\ Greater(snapshot.positions[1].gainPercent, snapshot.positions[2].gainPercent)
    /\ snapshot.positions[2].gainPercent = snapshot.positions[3].gainPercent
    /\ snapshot.topGainer = <<snapshot.positions[1].symbol>>
    /\ snapshot.topLoser = <<snapshot.positions[2].symbol>>

(***************************************************************************)
(* getSymbolSector and the sector breakdown of buildPortfolioSnapshot      *)
(* (part_001 233-261, 305-330). Strings are sequences of characters, the   *)
(* names of sectors are kept whole.                                        *)
(***************************************************************************)
Unknown == "Unknown"

\* a string value read from a document
Str(name) == [t |-> "string", s |-> name]

\* process.env.FINNHUB_API_KEY ?? process.env.NEXT_PUBLIC_FINNHUB_API_KEY ?? "":
\* no key configured, or one
Tokens == {<<>>, <<"k">>}

\* what fetchJSON does for a profile request: it throws, or it answers a profile whose
\* finnhubIndustry is absent, empty, or names a sector
ProfileAnswers ==
    { [threw |-> TRUE, finnhubIndustry |-> Undefined] }
    \cup { [threw |-> FALSE, finnhubIndustry |-> v] :
              v \in {Undefined} \cup {Str(name) : name \in {"", "Tech", "Energy"}} }

\* v || d on a string that may be absent: d replaces undefined and ""
OrString(v, d) == IF v = Undefined \/ v = Str("") THEN d ELSE v.s

\* line 254: profile?.finnhubIndustry || "Unknown"
SectorOfProfile(profile) == OrString(profile.finnhubIndustry, Unknown)

\* what a call of getSymbolSector gives: it returns a sector or throws, having gone
\* one of its ways (how) and, when it asked for the profile, got an industry or none
SectorResult(sector, cache, how, industry, threw) ==
    [sector |-> sector, cache |-> cache, how |-> how, industry |-> industry, threw |-> threw]

\* lines 241-249, up to the await: the cache entry when there is one, "Unknown" without
\* a token, else the profile is asked for
SectorStarted(cache, token, symbol) ==
    LET key == ToUpperCase(symbol)
    IN  IF MapHas(cache, key)
        THEN SectorResult(MapGet(cache, key), cache, "cached", Undefined, FALSE)
        ELSE IF token = <<>>
        THEN SectorResult(Unknown, cache, "no token", Undefined, FALSE)
        ELSE SectorResult("", cache, "fetching", Undefined, FALSE)

\* the part after the await without its try / catch: what fetchJSON throws goes on to
\* the caller
SectorSettledNoCatch(cache, symbol, answer) ==
    LET key == ToUpperCase(symbol)
    IN  IF answer.threw
        THEN SectorResult("", cache, "threw", Undefined, TRUE)
        ELSE SectorResult(SectorOfProfile(answer), MapSet(cache, key, SectorOfProfile(answer)),
                          "profile", answer.finnhubIndustry, FALSE)

\* lines 253-259, after the await: the sector returned and the cache written, given the
\* cache as it is when fetchJSON settles and what fetchJSON did
SectorSettled(cache, symbol, answer) ==
    LET key == ToUpperCase(symbol)
    IN  IF answer.threw
        THEN SectorResult(Unknown, MapSet(cache, key, Unknown), "threw", Undefined, FALSE)
        ELSE SectorResult(SectorOfProfile(answer), MapSet(cache, key, SectorOfProfile(answer)),
                          "profile", answer.finnhubIndustry, FALSE)

\* lines 240-261 for a call that no other call runs beside: the sector returned for a
\* symbol and the cache afterwards, given the cache, the token and what fetchJSON does
GetSymbolSector(cache, token, symbol, answer) ==
    LET started == SectorStarted(cache, token, symbol)
    IN  IF started.how = "fetching" THEN SectorSettled(cache, symbol, answer) ELSE started

\* a sector's value replaced by the position's instead of added to
AddToSectorOverwrites(sectorMap, res) ==
    MapSet(sectorMap, res.sector, res.marketValue)

\* line 317: sectorMap.set(sector, (sectorMap.get(sector) ?? 0) + marketValue)
AddToSector(sectorMap, res) ==
    MapSet(sectorMap, res.sector,
           Plus(Nullish(MapGetJS(sectorMap, res.sector), Num(0)), res.marketValue))

RECURSIVE SectorMap(_)
\* lines 315-318
SectorMap(sectorResults) ==
    IF sectorResults = <<>> THEN <<>>
    ELSE AddToSector(SectorMap(SubSeq(sectorResults, 1, Len(sectorResults) - 1)),
                     sectorResults[Len(sectorResults)])

RECURSIVE InsertByAllocation(_, _)
\* e put behind every entry whose allocationPct is not smaller
\* (b.allocationPct - a.allocationPct > 0 moves a behind b)
InsertByAllocation(sorted, e) ==
    IF sorted = <<>> THEN <<e>>
    ELSE IF Greater(Minus(e.allocationPct, Head(sorted).allocationPct), Num(0))
         THEN <<e>> \o sorted
         ELSE <<Head(sorted)>> \o InsertByAllocation(Tail(sorted), e)

RECURSIVE SortByAllocation(_)
\* line 329: .sort((a, b) => b.allocationPct - a.allocationPct)
SortByAllocation(entries) ==
    IF entries = <<>> THEN <<>>
    ELSE InsertByAllocation(SortByAllocation(SubSeq(entries, 1, Len(entries) - 1)),
                            entries[Len(entries)])

\* lines 320-329
SectorBreakdown(sectorResults, totalEquity) ==
    LET sectorMap == SectorMap(sectorResults)
    IN  SortByAllocation([j \in 1..Len(sectorMap) |->
            [ sector |-> sectorMap[j].key,
              allocationPct |-> IF Greater(totalEquity, Num(0))
                                THEN PercentOf(sectorMap[j].value, totalEquity)
                                ELSE Num(0) ]])

\* largest market value of a position and largest cash balance
MaxValue == 2

MaxCash == 1

SectorPortfolios ==
    { positions \in SeqsUpTo([symbol : ListedSymbols, marketValue : {Num(v) : v \in 1..MaxValue}],
                             MaxListed) :
        \A k, l \in 1..Len(positions) : positions[k].symbol = positions[l].symbol => k = l }

\* the cache of a fresh process, and caches left by an earlier snapshot
SectorCaches ==
    { <<>>, <<[key |-> <<"A">>, value |-> "Tech"]>>, <<[key |-> <<"A">>, value |-> Unknown]>> }

\* a lookup that positions.map has not started
Pending == [sector |-> "", how |-> "pending", industry |-> Undefined]

\* cache entries written by lookups of other snapshot builds of the process while this
\* one awaits its own
MaxOtherLookups == 1

\* the lookup has returned to Promise.all
LookupReturned(res) == res.how \notin {Pending.how, "fetching"}

SectorInit ==
    /\ modal = NoModal
    /\ TradingIdle
    /\ \E cache \in SectorCaches : sectorCache = cache
    /\ replay = NoReplay
    /\ curve = NoCurve
    /\ \E positions \in SectorPortfolios, balance \in 0..MaxCash, token \in Tokens :
         snapshot = [NoSnapshot EXCEPT
                       !.pc = "map", !.positions = positions, !.balance = Num(balance),
                       !.totalEquity = Plus(Num(balance), TotalMarketValue(positions)),
                       !.token = token,
                       !.sectorResults = [k \in 1..Len(positions) |->
                           [ symbol |-> positions[k].symbol,
                             marketValue |-> positions[k].marketValue,
                             sector |-> Pending.sector, how |-> Pending.how,
                             industry |-> Pending.industry ]]]
    /\ daily = NoDaily

\* lines 308-313: positions.map calls getSymbolSector for every position; each call
\* runs up to its await before the next one starts, so all of them read the same cache
SectorLookupsStart ==
    /\ snapshot.pc = "map"
    /\ snapshot' = [snapshot EXCEPT
                      !.pc = "sectors",
                      !.sectorResults = [k \in 1..Len(snapshot.positions) |->
                          LET started == SectorStarted(sectorCache, snapshot.token,
                                                       snapshot.positions[k].symbol)
                          IN  [snapshot.sectorResults[k] EXCEPT !.sector = started.sector,
                                                                !.how = started.how]]]
    /\ UNCHANGED <<trading, modal, sectorCache, replay, curve, daily>>

\* lines 253-259: fetchJSON settles for one of the lookups awaiting it, which writes the
\* cache as it is now and returns; were it to throw, Promise.all and with it
\* buildPortfolioSnapshot would reject
SectorLookup ==
    /\ snapshot.pc = "sectors"
    /\ \E k \in 1..Len(snapshot.positions), answer \in ProfileAnswers :
         /\ snapshot.sectorResults[k].how = "fetching"
         /\ LET got == SectorSettled(sectorCache, snapshot.positions[k].symbol, answer)
            IN  /\ snapshot' = [snapshot EXCEPT !.sectorResults[k].sector = got.sector,
                                                !.sectorResults[k].how = got.how,
                                                !.sectorResults[k].industry = got.industry,
                                                !.pc = IF got.threw THEN "rejected" ELSE @]
                /\ sectorCache' = got.cache
    /\ UNCHANGED <<trading, modal, replay, curve, daily>>

\* lines 255 and 258 in a lookup of another snapshot build of the same process: its
\* request settles while this build awaits its own lookups, and it writes the one cache
\* for its symbol, which this build may hold or not, and may have looked up already
OtherLookupSettles ==
    /\ snapshot.pc = "sectors"
    /\ ops < MaxOtherLookups
    /\ \E symbol \in ListedSymbols, answer \in ProfileAnswers :
         sectorCache' = SectorSettled(sectorCache, symbol, answer).cache
    /\ ops' = ops + 1
    /\ UNCHANGED <<users, log, version, locked, now, nextId, pc, call, result, rd,
                   modal, replay, curve, snapshot, daily>>

\* lines 306-330: every lookup has returned (none was made without positions)
SnapshotSectors ==
    /\ snapshot.pc = "sectors"
    /\ \A k \in 1..Len(snapshot.positions) : LookupReturned(snapshot.sectorResults[k])
    /\ snapshot' = [snapshot EXCEPT
                      !.pc = "done",
                      !.sectorBreakdown = IF Len(snapshot.positions) > 0
                                          THEN SectorBreakdown(snapshot.sectorResults,
                                                               snapshot.totalEquity)
                                          ELSE <<>>]
    /\ UNCHANGED <<trading, modal, sectorCache, replay, curve, daily>>

SectorNext ==
    \/ SectorLookupsStart
    \/ SectorLookup
    \/ OtherLookupSettles
    \/ SnapshotSectors

SectorSpec == SectorInit /\ [][SectorNext]_vars

(***************************************************************************)
(* Sector properties                                                       *)
(***************************************************************************)
RECURSIVE ValueInSector(_, _)
\* the market value of the positions grouped under a sector
ValueInSector(sectorResults, sector) ==
    IF sectorResults = <<>> THEN Num(0)
    ELSE LET last == sectorResults[Len(sectorResults)]
             rest == ValueInSector(SubSeq(sectorResults, 1, Len(sectorResults) - 1), sector)
         IN  IF last.sector = sector THEN Plus(rest, last.marketValue) ELSE rest

\* C23. Sector breakdown: every listed position is counted in exactly one entry, that
\* of the sector its lookup returned; each sector appears once, with the sum of the
\* market values of its positions as a percentage of total equity (cash + market
\* value), rounded to 2 places as every percentage field is; the entries are ordered by
\* allocation descending.
C23_SectorBreakdown ==
    snapshot.pc = "done" =>
        LET results == snapshot.sectorResults
            entries == snapshot.sectorBreakdown
        IN  /\ snapshot.totalEquity = Plus(snapshot.balance, TotalMarketValue(snapshot.positions))
            /\ \A k \in 1..Len(results) :
                 Cardinality({j \in 1..Len(entries) : entries[j].sector = results[k].sector}) = 1
            /\ \A j \in 1..Len(entries) :
                 /\ \E k \in 1..Len(results) : results[k].sector = entries[j].sector
                 /\ \A l \in 1..Len(entries) : entries[l].sector = entries[j].sector => l = j
                 /\ entries[j].allocationPct =
                      PercentOf(ValueInSector(results, entries[j].sector),
                                snapshot.totalEquity)
            /\ \A j, l \in 1..Len(entries) :
                 j < l => ~Less(entries[j].allocationPct, entries[l].allocationPct)

\* three positions, two of them in one sector whose share (2 of 3 in equity) does not
\* round to the sum of its positions' rounded shares, listed after a smaller sector
C23_Witness ==
    /\ snapshot.pc = "done"
    /\ Len(snapshot.positions) = MaxListed
    /\ Len(snapshot.sectorBreakdown) = 2
    /\ snapshot.sectorResults[1].sector # snapshot.sectorResults[2].sector
    /\ snapshot.sectorResults[2].sector = snapshot.sectorResults[3].sector
    /\ snapshot.sectorBreakdown[1].sector = snapshot.sectorResults[2].sector
    /\ snapshot.sectorBreakdown[1].allocationPct = Frac(6667, 100)
    /\ snapshot.sectorBreakdown[2].allocationPct = Frac(3333, 100)

\* the lookup for position k failed: no API token, the request threw, or the profile
\* came without an industry
LookupFailed(k) ==
    LET res == snapshot.sectorResults[k]
    IN  \/ res.how \in {"no token", "threw"}
        \/ res.how = "profile" /\ res.industry \in {Undefined, Str("")}

\* C24. A failing sector lookup never fails the snapshot: with no API token, when the
\* request throws, and when the profile has no industry, getSymbolSector returns
\* "Unknown" instead of throwing, and the snapshot is returned with the position
\* grouped under "Unknown".
C24_LookupFailureIsUnknown ==
    /\ snapshot.pc # "rejected"
    /\ \A k \in 1..Len(snapshot.sectorResults) :
         LookupFailed(k) => snapshot.sectorResults[k].sector = Unknown
    /\ snapshot.pc = "done" =>
         \A k \in 1..Len(snapshot.sectorResults) :
            LookupFailed(k) =>
               \E j \in 1..Len(snapshot.sectorBreakdown) :
                  /\ snapshot.sectorBreakdown[j].sector = Unknown
                  /\ snapshot.sectorBreakdown[j].allocationPct =
                       PercentOf(ValueInSector(snapshot.sectorResults, Unknown),
                                 snapshot.totalEquity)

\* a snapshot returned after one lookup threw and another got a profile without an
\* industry: both positions are under "Unknown", a third under its sector
C24_Witness ==
    /\ snapshot.pc = "done"
    /\ Len(snapshot.positions) = MaxListed
    /\ \E k, l, m \in 1..MaxListed :
         /\ snapshot.sectorResults[k].how = "threw"
         /\ snapshot.sectorResults[l].how = "profile"
         /\ snapshot.sectorResults[l].industry = Undefined
         /\ snapshot.sectorResults[m].sector = "Tech"
    /\ Len(snapshot.sectorBreakdown) = 2

(***************************************************************************)
(* getUserPortfolio as a whole (portfolio.service.ts 28-186): the account  *)
(* and its transactions are read, replayed, priced and totalled.           *)
(***************************************************************************)
\* the trades a ledger can hold
LedgerTrades ==
    [ symbol : Symbols, type : {"BUY", "SELL"}, quantity : 1..MaxQty, price : 1..MaxPrice ]

\* the committed log of trades: ids in commit order, stamped one tick apart
LogOf(trades) ==
    [k \in 1..Len(trades) |->
        [ id |-> k, userId |-> "u1", symbol |-> trades[k].symbol, type |-> trades[k].type,
          quantity |-> trades[k].quantity, price |-> Num(trades[k].price),
          totalAmount |-> Mul(Num(trades[k].price), Num(trades[k].quantity)),
          createdAt |-> k ]]

\* the logs executeTrade can have committed for the account: no prefix overdraws the
\* balance or sells a symbol short
Ledgers ==
    { LogOf(trades) : trades \in
        { ts \in SeqsUpTo(LedgerTrades, MaxTxns) :
            \A n \in 0..Len(ts) :
                /\ ValidUser(BalanceAfter(Num(OpeningBalance), SubSeq(LogOf(ts), 1, n)))
                /\ \A sym \in Symbols :
                     NetQuantity(SelectTxns(SubSeq(LogOf(ts), 1, n), "u1", sym)) >= 0 } }

\* the price test of executeTrade, which lets a negative price through
PriceInvalidAsInTrade(stockData) == PriceUnavailable(stockData)

\* lines 124-128: !stockData.success || !stockData.data?.currentPrice ||
\* stockData.data.currentPrice <= 0
PriceInvalid(stockData) ==
    \/ ~stockData.success
    \/ ~stockData.hasPrice
    \/ stockData.currentPrice.nan
    \/ stockData.currentPrice = Num(0)
    \/ LessEq(stockData.currentPrice, Num(0))

RECURSIVE TempPositions(_, _)
\* lines 119-150: the priced positions; a symbol without a valid price is skipped.
\* marketValue, unrealizedPnL and gainPercent are doubles, rounded at each operation
TempPositions(activeSymbols, priceResults) ==
    IF activeSymbols = <<>> THEN <<>>
    ELSE LET n == Len(activeSymbols)
             rest == TempPositions(SubSeq(activeSymbols, 1, n - 1), SubSeq(priceResults, 1, n - 1))
             active == activeSymbols[n]
             stockData == priceResults[n]
             currentPrice == stockData.currentPrice
         IN  IF PriceInvalid(stockData) THEN rest
             ELSE Append(rest,
                    [ symbol |-> active.symbol, netQty |-> active.netQty,
                      avgCost |-> active.avgCost, currentPrice |-> currentPrice,
                      marketValue |-> Mul(active.netQty, currentPrice),
                      unrealizedPnL |-> Mul(Sub(currentPrice, active.avgCost),
                                            active.netQty),
                      gainPercent |-> IF Positive(active.avgCost)
                                      THEN Mul(Div(Sub(currentPrice, active.avgCost),
                                                   active.avgCost), Num(100))
                                      ELSE Num(0) ])

\* lines 159-163: allocationPercent added to each position
WithAllocation(tempPositions, totalMarketValue) ==
    [k \in 1..Len(tempPositions) |->
        [ symbol |-> tempPositions[k].symbol, netQty |-> tempPositions[k].netQty,
          avgCost |-> tempPositions[k].avgCost, currentPrice |-> tempPositions[k].currentPrice,
          marketValue |-> tempPositions[k].marketValue,
          unrealizedPnL |-> tempPositions[k].unrealizedPnL,
          gainPercent |-> tempPositions[k].gainPercent,
          allocationPercent |-> IF Greater(totalMarketValue, Num(0))
                                THEN Mul(Div(tempPositions[k].marketValue,
                                             totalMarketValue), Num(100))
                                ELSE Num(0) ]]

\* the account and the log as committed, read by lines 35-47 in two queries without a
\* session: the user document is read (line 36) when the first n trades of the ledger
\* are committed, the transactions (line 45) when all of them are
PortfolioInit ==
    /\ modal = NoModal
    /\ \E ledger \in Ledgers, n \in 0..MaxTxns :
         /\ n <= Len(ledger)
         /\ users = [u \in Accounts |->
                        [balance |-> BalanceAfter(Num(OpeningBalance), ledger),
                         startingBalance |-> Num(OpeningBalance)]]
         /\ log = ledger
         /\ version = [u \in Accounts |-> Len(ledger)]
         /\ nextId = Len(ledger) + 1
         /\ \E sorted \in SortsByCreatedAt(UserTxns(ledger, "u1")) :
              replay = [NoReplay EXCEPT
                          !.pc = "loop",
                          !.balance = OrElse(BalanceAfter(Num(OpeningBalance),
                                                          SubSeq(ledger, 1, n)), Num(0)),
                          !.startingBalance = OrElse(Num(OpeningBalance),
                                                     Num(DefaultBalance)),
                          !.transactions = LeanList(sorted)]
    /\ locked = [u \in Accounts |-> NoProc]
    /\ now = 0
    /\ pc = [p \in Procs |-> "idle"]
    /\ call = [p \in Procs |-> NoCall]
    /\ result = [p \in Procs |-> NoResult]
    /\ ops = 0
    /\ rd = NoRead
    /\ sectorCache = <<>>
    /\ curve = NoCurve
    /\ snapshot = NoSnapshot
    /\ daily = NoDaily

RECURSIVE TotalUnrealizedPnL(_)
\* lines 166-169: the unrealizedPnL of the positions, added up from 0 in their order
TotalUnrealizedPnL(positions) ==
    IF positions = <<>> THEN Num(0)
    ELSE Add(TotalUnrealizedPnL(SubSeq(positions, 1, Len(positions) - 1)),
             positions[Len(positions)].unrealizedPnL)

\* lines 174-175: (totalReturn / startingBalance) * 100, or 0
TotalReturnPercent(totalReturn, startingBalance) ==
    IF Greater(startingBalance, Num(0))
    THEN Mul(Div(totalReturn, startingBalance), Num(100))
    ELSE Num(0)

\* lines 153-185: the portfolio returned for the priced positions
Totalled(state, priceResults, tempPositions) ==
    LET totalMarketValue == TotalMarketValue(tempPositions)
        totalEquity == Add(state.balance, totalMarketValue)
        totalReturn == Sub(totalEquity, state.startingBalance)
    IN  [state EXCEPT
            !.pc = "returned",
            !.priceResults = priceResults,
            !.positions = WithAllocation(tempPositions, totalMarketValue),
            !.totalMarketValue = totalMarketValue,
            !.totalUnrealizedPnL = TotalUnrealizedPnL(tempPositions),
            !.totalEquity = totalEquity,
            !.totalReturn = totalReturn,
            !.totalReturnPercent = TotalReturnPercent(totalReturn, state.startingBalance)]

\* lines 103-185: every price is fetched, the positions are built and totalled, and the
\* portfolio is returned
PortfolioPrices ==
    /\ replay.pc = "done"
    /\ \E priceResults \in [1..Len(replay.activeSymbols) -> OracleAnswers] :
         replay' = Totalled(replay, priceResults,
                            TempPositions(replay.activeSymbols, priceResults))
    /\ UNCHANGED <<trading, modal, sectorCache, curve, snapshot, daily>>

PortfolioNext ==
    \/ ReplayLoop
    \/ ReplayCollect
    \/ PortfolioPrices

PortfolioSpec == PortfolioInit /\ [][PortfolioNext]_vars

(***************************************************************************)
(* Portfolio properties                                                    *)
(***************************************************************************)
\* the answer for the k-th held symbol carries a price above 0
Priced(k) ==
    LET stockData == replay.priceResults[k]
    IN  stockData.success /\ stockData.hasPrice /\ Greater(stockData.currentPrice, Num(0))

\* the held symbols that are priced, in the order they are held
RECURSIVE PricedUpTo(_)
PricedUpTo(n) ==
    IF n = 0 THEN <<>>
    ELSE IF Priced(n) THEN Append(PricedUpTo(n - 1), n) ELSE PricedUpTo(n - 1)

\* C25. A held symbol whose price cannot be fetched (the oracle fails, or gives no
\* price or one that is not positive) is left out of the positions and adds nothing to
\* totalMarketValue, totalEquity or allocationPercent; every other held symbol is
\* listed (totalEquity being the balance the call read plus the value of the listed
\* ones); the call returns; balance and transactions are unchanged.
C25_UnpricedPositionOmitted ==
    /\ [](replay.pc = "returned" =>
            LET held == replay.activeSymbols
                kept == PricedUpTo(Len(held))
                value(k) == Mul(held[k].netQty, replay.priceResults[k].currentPrice)
                total == TotalMarketValue([j \in 1..Len(kept) |->
                                             [marketValue |-> value(kept[j])]])
            IN  /\ Len(replay.positions) = Len(kept)
                /\ \A j \in 1..Len(kept) :
                     /\ replay.positions[j].symbol = held[kept[j]].symbol
                     /\ replay.positions[j].netQty = held[kept[j]].netQty
                     /\ replay.positions[j].marketValue = value(kept[j])
                     /\ replay.positions[j].allocationPercent
                          = Mul(Div(value(kept[j]), total), Num(100))
                /\ replay.totalMarketValue = total
                /\ replay.totalEquity = Add(replay.balance, total))
    /\ [][UNCHANGED <<users, log>>]_vars

\* a portfolio returned for an account holding two symbols, one of them answered with
\* a negative price: the other is the only position
C25_Witness ==
    /\ replay.pc = "returned"
    /\ Len(replay.activeSymbols) = 2
    /\ Less(replay.priceResults[1].currentPrice, Num(0))
    /\ Priced(2)
    /\ Len(replay.positions) = 1
    /\ Len(log) = MaxTxns

(***************************************************************************)
(* Read paths and the ledger                                               *)
(***************************************************************************)
\* C26. The read paths (getUserPortfolio, getEquityTimeSeries, and with them the
\* snapshot and the equity route) have no ledger effect: no step of a read changes an
\* account's balance or startingBalance or the transaction log.
C26_ReadsLeaveLedgerUnchanged ==
    [][rd' # rd => users' = users /\ log' = log]_vars

\* a snapshot has read the account and its transactions twice, after a trade was
\* committed, while a trade is in flight
C26_Witness ==
    /\ rd.op = "snapshot"
    /\ rd.pcP = "done"
    /\ rd.pcE = "done"
    /\ Len(rd.logP) >= 1
    /\ Len(rd.logE) >= 1
    /\ users[rd.userId].balance # users[rd.userId].startingBalance
    /\ \E p \in Procs : pc[p] = "commit"

(***************************************************************************)
(* Replay order                                                            *)
(***************************************************************************)
\* C27 (as claimed). Replay order is commit order: the createdAt values of a user's
\* committed transactions never decrease in commit order, and the transactions the
\* position replay and the equity replay work through are the user's transactions in
\* the order they were committed, also when two of them carry the same createdAt.
C27_ReplayOrderIsCommitOrderClaim ==
    /\ \A u \in Accounts :
         LET committed == UserTxns(log, u)
         IN  \A j, k \in 1..Len(committed) :
                 j < k => committed[j].createdAt <= committed[k].createdAt
    /\ rd.pcP = "done" => IsPrefix(rd.logP, UserTxns(log, rd.userId))
    /\ rd.pcE = "done" => IsPrefix(rd.logE, UserTxns(log, rd.userId))

(***************************************************************************)
(* Unit of work                                                            *)
(***************************************************************************)
\* C28 (as claimed). Unit-of-work lifecycle: a call that has started its session leaves
\* only through the finally clause that ends it, and by then has committed the store
\* transaction or aborted it; a committed transaction is never aborted afterwards; and
\* the call returns a result, success or failure.
C28_UnitOfWorkLifecycleClaim ==
    /\ [][\A p \in Procs : (pc[p] # "idle" /\ pc'[p] = "idle") => pc[p] = "finally"]_vars
    /\ [](\A p \in Procs :
            pc[p] = "finally" =>
                /\ call[p].txn \in {"committed", "aborted"}
                /\ call[p].txn = "committed" <=> result[p].success
                /\ ~result[p].rejected)

(***************************************************************************)
(* executeTrade on JavaScript numbers: the quantity is any number the      *)
(* caller passes. A call gives way to other calls at each await, so two    *)
(* calls run their steps in any order.                                     *)
(***************************************************************************)
\* calls made in a run
MaxCalls == 2

\* the quantity argument: a number, whole or not
NumberQuantities == {Frac(1, 2), Num(1), Frac(3, 2)}

RECURSIVE NetQuantityNumber(_)
\* lines 78-86: BUY quantities minus SELL quantities
NetQuantityNumber(transactions) ==
    IF transactions = <<>> THEN Num(0)
    ELSE LET txn == transactions[Len(transactions)]
             netQuantity == NetQuantityNumber(SubSeq(transactions, 1, Len(transactions) - 1))
         IN  IF txn.type = "BUY" THEN Plus(netQuantity, txn.quantity)
             ELSE IF txn.type = "SELL" THEN Minus(netQuantity, txn.quantity)
             ELSE netQuantity

\* transaction schema: type in the enum, quantity with min 1 (a number, no integer test)
ValidTransactionNumber(type, quantity) == type \in {"BUY", "SELL"} /\ LessEq(Num(1), quantity)

\* the request a call of executeTrade serves, none when it is called directly
NoRequest == [ method |-> "", session |-> Undefined, body |-> Undefined ]

\* the locals of a call; symbol is the argument and upperSymbol what line 38 makes of it
NoNumberCall ==
    [ userId |-> "", symbol |-> <<>>, upperSymbol |-> <<>>, type |-> "",
      quantity |-> Num(0), price |-> Num(0), totalAmount |-> Num(0),
      txn |-> "none", snapVersion |-> 0, snapLog |-> <<>>, balance |-> Num(0),
      txnId |-> 0, err |-> NoError, request |-> NoRequest ]

\* lines 29-43: the session and its transaction are started, the symbol is normalized
\* and the arguments are validated; the call then awaits the price or is in its catch
NumberBegun(userId, symbol, type, quantity) ==
    LET upperSymbol == NormalizeSymbol(symbol)
        locals == [NoNumberCall EXCEPT !.userId = userId, !.symbol = symbol,
                                       !.upperSymbol = upperSymbol, !.type = type,
                                       !.quantity = quantity, !.txn = "open"]
    IN  IF userId = "" \/ upperSymbol = <<>> \/ Less(quantity, Num(1))
        THEN [pc |-> "catch", locals |-> [locals EXCEPT !.err = ErrInvalidParams]]
        ELSE [pc |-> "price", locals |-> locals]

\* throw inside the try block
NumberThrow(p, msg) ==
    /\ call' = [call EXCEPT ![p].err = msg]
    /\ pc' = [pc EXCEPT ![p] = "catch"]

\* the account as opened, its figures as numbers
NumberInit ==
    /\ modal = NoModal
    /\ users = [u \in Accounts |-> [balance |-> Num(OpeningBalance),
                                    startingBalance |-> Num(OpeningBalance)]]
    /\ log = <<>>
    /\ version = [u \in Accounts |-> 0]
    /\ nextId = 1
    /\ locked = [u \in Accounts |-> NoProc]
    /\ now = 0
    /\ pc = [p \in Procs |-> "idle"]
    /\ call = [p \in Procs |-> NoNumberCall]
    /\ result = [p \in Procs |-> NoResult]
    /\ ops = 0
    /\ rd = NoRead
    /\ sectorCache = <<>>
    /\ replay = NoReplay
    /\ curve = NoCurve
    /\ snapshot = NoSnapshot
    /\ daily = NoDaily

\* lines 23-43: a caller invokes executeTrade, which runs up to its await of the price
NumberCall(p) ==
    /\ pc[p] \in {"idle", "returned"}
    /\ ops < MaxCalls
    /\ \E userId \in UserIds, symbol \in RawSymbols, type \in TradeTypes,
          quantity \in NumberQuantities :
         LET begun == NumberBegun(userId, symbol, type, quantity)
         IN  /\ call' = [call EXCEPT ![p] = begun.locals]
             /\ pc' = [pc EXCEPT ![p] = begun.pc]
    /\ result' = [result EXCEPT ![p] = NoResult]
    /\ ops' = ops + 1
    /\ UNCHANGED <<users, log, version, locked, now, nextId, rd, analytics>>

\* lines 46-52: the price is fetched, a failed or falsy answer rejected, totalAmount
\* computed
NumberPrice(p) ==
    /\ pc[p] = "price"
    /\ \E stockData \in OracleAnswers :
         IF PriceUnavailable(stockData)
         THEN NumberThrow(p, ErrPrice)
         ELSE /\ call' = [call EXCEPT
                            ![p].price = stockData.currentPrice,
                            ![p].totalAmount = Mul(stockData.currentPrice,
                                                   call[p].quantity)]
              /\ pc' = [pc EXCEPT ![p] = "load"]
    /\ UNCHANGED <<users, log, version, locked, now, nextId, result, ops, rd, analytics>>

\* lines 58-70, 95-97: the account is loaded inside the transaction, its first store
\* operation, which fixes the snapshot; a BUY is checked and debited in memory
NumberLoad(p) ==
    /\ pc[p] = "load"
    /\ LET c == call[p]
           u == c.userId
       IN  \E ok \in BOOLEAN :
             IF ~ok THEN NumberThrow(p, ErrStore)
             ELSE IF u \notin Accounts THEN NumberThrow(p, ErrUserNotFound)
             ELSE LET snap == [c EXCEPT !.snapVersion = version[u], !.snapLog = log,
                                        !.balance = users[u].balance]
                  IN  IF c.type = "BUY"
                      THEN IF InsufficientBalance(snap.balance, c.totalAmount)
                           THEN NumberThrow(p, ErrInsufficientBalance)
                           ELSE /\ call' = [call EXCEPT ![p] =
                                     [snap EXCEPT !.balance = Debit(snap.balance,
                                                                    c.totalAmount)]]
                                /\ pc' = [pc EXCEPT ![p] = "save"]
                      ELSE IF c.type = "SELL"
                           THEN /\ call' = [call EXCEPT ![p] = snap]
                                /\ pc' = [pc EXCEPT ![p] = "find"]
                           ELSE NumberThrow(p, ErrInvalidType)
    /\ UNCHANGED <<users, log, version, locked, now, nextId, result, ops, rd, analytics>>

\* lines 73-94: a SELL reads the symbol's transactions from the snapshot, checks the
\* holdings and credits the proceeds in memory
NumberFind(p) ==
    /\ pc[p] = "find"
    /\ LET c == call[p]
           netQuantity == NetQuantityNumber(SelectTxns(c.snapLog, c.userId, c.upperSymbol))
       IN  IF Less(netQuantity, c.quantity)
           THEN NumberThrow(p, ErrInsufficientHoldings)
           ELSE /\ call' = [call EXCEPT ![p].balance = Credit(c.balance, c.totalAmount)]
                /\ pc' = [pc EXCEPT ![p] = "save"]
    /\ UNCHANGED <<users, log, version, locked, now, nextId, result, ops, rd, analytics>>

\* line 100: user.save({ session }); Mongoose checks min 0 of the balance, and the
\* store refuses a write to a document written since the snapshot
NumberSave(p) ==
    /\ pc[p] = "save"
    /\ LET c == call[p]
           u == c.userId
       IN  IF ~ValidUser(c.balance)
           THEN NumberThrow(p, ErrValidation) /\ UNCHANGED locked
           ELSE IF WriteConflict(p, u)
           THEN NumberThrow(p, ErrWriteConflict) /\ UNCHANGED locked
           ELSE /\ locked' = [locked EXCEPT ![u] = p]
                /\ pc' = [pc EXCEPT ![p] = "create"]
                /\ UNCHANGED call
    /\ UNCHANGED <<users, log, version, now, nextId, result, ops, rd, analytics>>

\* lines 103-115: Transaction.create([...], { session }), validated against the schema
NumberCreate(p) ==
    /\ pc[p] = "create"
    /\ IF ~ValidTransactionNumber(call[p].type, call[p].quantity)
       THEN NumberThrow(p, ErrValidation) /\ UNCHANGED nextId
       ELSE /\ call' = [call EXCEPT ![p].txnId = nextId]
            /\ nextId' = nextId + 1
            /\ pc' = [pc EXCEPT ![p] = "commit"]
    /\ UNCHANGED <<users, log, version, locked, now, result, ops, rd, analytics>>

\* the document Transaction.create wrote inside the transaction
NumberTransaction(c) ==
    [ id |-> c.txnId, userId |-> c.userId, symbol |-> c.upperSymbol, type |-> c.type,
      quantity |-> c.quantity, price |-> c.price, totalAmount |-> c.totalAmount,
      createdAt |-> c.txnId ]

\* line 118: commitTransaction makes both writes visible together; a commit that fails
\* leaves the session in the driver's committed state all the same
NumberCommit(p) ==
    /\ pc[p] = "commit"
    /\ LET c == call[p]
           u == c.userId
       IN  \E ok \in BOOLEAN :
             IF ~ok
             THEN /\ call' = [call EXCEPT ![p].txn = "commit failed", ![p].err = ErrStore]
                  /\ pc' = [pc EXCEPT ![p] = "catch"]
                  /\ UNCHANGED <<users, log, version, locked>>
             ELSE /\ users' = [users EXCEPT ![u].balance = c.balance]
                  /\ log' = Append(log, NumberTransaction(c))
                  /\ version' = [version EXCEPT ![u] = version[u] + 1]
                  /\ locked' = [locked EXCEPT ![u] = NoProc]
                  /\ call' = [call EXCEPT ![p].txn = "committed"]
                  /\ pc' = [pc EXCEPT ![p] = "finally"]
    /\ UNCHANGED <<now, nextId, result, ops, rd, analytics>>

\* lines 132-141: abortTransaction drops the transaction's writes; after a commit was
\* attempted the driver refuses the abort and throws out of the catch clause
NumberCatch(p) ==
    /\ pc[p] = "catch"
    /\ locked' = [u \in Accounts |-> IF locked[u] = p THEN NoProc ELSE locked[u]]
    /\ call' = [call EXCEPT ![p].txn = IF call[p].txn = "commit failed"
                                        THEN "commit failed" ELSE "aborted"]
    /\ pc' = [pc EXCEPT ![p] = "finally"]
    /\ UNCHANGED <<users, log, version, now, nextId, result, ops, rd, analytics>>

\* what the call gives its caller: the success result of lines 120-131, the failure
\* result of lines 138-141, or the driver's error where the abort threw
NumberResult(c) ==
    IF c.txn = "committed"
    THEN [ success |-> TRUE, error |-> NoError, rejected |-> FALSE,
           transactionId |-> c.txnId, symbol |-> c.upperSymbol, type |-> c.type,
           quantity |-> c.quantity, price |-> c.price, totalAmount |-> c.totalAmount,
           newBalance |-> c.balance ]
    ELSE IF c.txn = "commit failed" THEN Rejection(ErrAbortAfterCommit)
    ELSE FailureResult(c.err)

\* lines 142-145: endSession, and the result reaches the caller
NumberFinally(p) ==
    /\ pc[p] = "finally"
    /\ result' = [result EXCEPT ![p] = NumberResult(call[p])]
    /\ pc' = [pc EXCEPT ![p] = "returned"]
    /\ UNCHANGED <<users, log, version, locked, now, nextId, call, ops, rd, analytics>>

\* lines 45-146 of the call in slot p
NumberRun(p) ==
    \/ NumberPrice(p)
    \/ NumberLoad(p)
    \/ NumberFind(p)
    \/ NumberSave(p)
    \/ NumberCreate(p)
    \/ NumberCommit(p)
    \/ NumberCatch(p)
    \/ NumberFinally(p)

NumberNext == \E p \in Procs : NumberCall(p) \/ NumberRun(p)

NumberSpec == NumberInit /\ [][NumberNext]_vars

(***************************************************************************)
(* Log well-formedness                                                     *)
(***************************************************************************)
\* x is a whole number
IsInteger(x) == ~x.nan /\ x.d = 1

\* C29 (as claimed). Every transaction executeTrade commits has a non-empty symbol equal
\* to the upper-cased, trimmed input symbol, a type in {BUY, SELL}, an integer quantity
\* of at least 1 and totalAmount = quantity x price; and a committed SELL was checked
\* against the holdings recorded under that normalized symbol.
C29_LogWellFormedClaim ==
    [][\A p \in Procs :
        (pc[p] = "commit" /\ pc'[p] = "finally") =>
            LET t == log'[Len(log')]
                c == call[p]
            IN  /\ Len(log') = Len(log) + 1
                /\ t.symbol # <<>>
                /\ t.symbol = NormalizeSymbol(c.symbol)
                /\ t.type \in {"BUY", "SELL"}
                /\ IsInteger(t.quantity)
                /\ LessEq(Num(1), t.quantity)
                /\ t.totalAmount = Mul(t.quantity, t.price)
                /\ t.type = "SELL" =>
                     LessEq(t.quantity,
                            NetQuantityNumber(SelectTxns(log, c.userId,
                                                         NormalizeSymbol(c.symbol))))]_vars

(***************************************************************************)
(* Order of the precondition checks                                        *)
(***************************************************************************)
\* C30 (as claimed). Preconditions are checked first: a call whose quantity is below 1,
\* whose symbol is empty after normalization or whose type is neither BUY nor SELL is
\* rejected before the price oracle is called or the account is read, so every call
\* that has got as far as the oracle or the store has valid arguments.
C30_PreconditionsFirstClaim ==
    \A p \in Procs :
        pc[p] \in {"price", "load", "find", "save", "create", "commit"} =>
            /\ call[p].quantity >= 1
            /\ call[p].symbol # <<>>
            /\ call[p].type \in {"BUY", "SELL"}

(***************************************************************************)
(* The sector cache over the life of the process: getSymbolSector is       *)
(* called again and again while the profile endpoint's answers change.     *)
(***************************************************************************)
\* the process has loaded the analytics module (line 233: an empty cache); profiles is
\* what the profile endpoint does now for each symbol
CacheInit ==
    /\ modal = NoModal
    /\ TradingIdle
    /\ sectorCache = <<>>
    /\ replay = NoReplay
    /\ curve = NoCurve
    /\ \E token \in Tokens, profiles \in [Symbols -> ProfileAnswers] :
         snapshot = [NoSnapshot EXCEPT !.pc = "serving", !.token = token,
                                       !.profiles = profiles]
    /\ daily = NoDaily

\* the endpoint's answer for a symbol changes: a failure passes, a profile is revised
ProfileChanges ==
    /\ snapshot.pc = "serving"
    /\ \E symbol \in Symbols, answer \in ProfileAnswers :
         /\ answer # snapshot.profiles[symbol]
         /\ snapshot' = [snapshot EXCEPT !.profiles[symbol] = answer]
    /\ UNCHANGED <<trading, modal, sectorCache, replay, curve, daily>>

\* the call of getSymbolSector has not returned: it awaits fetchJSON
Fetching(res) == res.how = "fetching"

\* lines 240-253: getSymbolSector(symbol) is called and runs up to its await, or
\* returns at once; the endpoint decides its answer when it is asked
SectorCall ==
    /\ snapshot.pc = "serving"
    /\ Len(SelectSeq(snapshot.sectorResults, Fetching)) < MaxCalls
    /\ \E symbol \in Symbols :
         LET started == SectorStarted(sectorCache, snapshot.token, symbol)
         IN  snapshot' = [snapshot EXCEPT !.sectorResults =
                            Append(SelectSeq(snapshot.sectorResults, Fetching),
                                   [ symbol |-> symbol, marketValue |-> Num(0),
                                     sector |-> started.sector, how |-> started.how,
                                     industry |-> started.industry,
                                     answer |-> snapshot.profiles[symbol] ])]
    /\ UNCHANGED <<trading, modal, sectorCache, replay, curve, daily>>

\* lines 253-259: fetchJSON settles for one of the calls awaiting it, in any order; the
\* call writes the cache as it is now and returns
SectorCallSettles ==
    /\ snapshot.pc = "serving"
    /\ \E k \in 1..Len(snapshot.sectorResults) :
         /\ Fetching(snapshot.sectorResults[k])
         /\ LET res == snapshot.sectorResults[k]
                got == SectorSettled(sectorCache, res.symbol, res.answer)
            IN  /\ sectorCache' = got.cache
                /\ snapshot' = [snapshot EXCEPT !.sectorResults[k].sector = got.sector,
                                                !.sectorResults[k].how = got.how,
                                                !.sectorResults[k].industry = got.industry]
    /\ UNCHANGED <<trading, modal, replay, curve, daily>>

\* the process restarts: the module is loaded again with an empty cache, and the calls
\* that were running are gone
ProcessRestart ==
    /\ snapshot.pc = "serving"
    /\ sectorCache # <<>>
    /\ sectorCache' = <<>>
    /\ snapshot' = [snapshot EXCEPT !.sectorResults = <<>>]
    /\ UNCHANGED <<trading, modal, replay, curve, daily>>

CacheNext ==
    \/ ProfileChanges
    \/ SectorCall
    \/ SectorCallSettles
    \/ ProcessRestart

CacheSpec == CacheInit /\ [][CacheNext]_vars

\* C31 (as claimed). The sector cache is not correctness-critical: whatever the cache
\* holds and whatever the endpoint answers now, the sector getSymbolSector returns for
\* a symbol with a cache entry is the sector it returns once that entry is evicted.
C31_CacheNotCorrectnessCriticalClaim ==
    snapshot.pc = "serving" =>
        \A symbol \in Symbols :
            LET key == ToUpperCase(symbol)
                current == snapshot.profiles[symbol]
            IN  MapHas(sectorCache, key) =>
                    GetSymbolSector(sectorCache, snapshot.token, symbol, current).sector
                      = GetSymbolSector(MapDelete(sectorCache, key), snapshot.token,
                                        symbol, current).sector

(***************************************************************************)
(* The route and the service build the same curve                          *)
(***************************************************************************)
\* the points builder op returns for the account and the list the running builder was
\* given: the running builder's own points, or the other builder's for the same input
CurveOf(op) ==
    IF curve.op = op THEN curve.points
    ELSE EquityCurve(op, StartingBalanceOf(op, curve.stored), curve.transactions, 0)

\* C32 (as claimed). The equity route and getEquityTimeSeries are the same replay:
\* for a list with at least one transaction they emit as many points with the same
\* timestamps in the same order, and each point's pnl in the route is the equity of
\* the service's point minus startingBalance, rounded to 2 decimals; for an empty list
\* the route returns one point with pnl 0 and the service one point with equity
\* startingBalance.
C32_RouteAndSeriesSameReplayClaim ==
    curve.pc = "done" =>
        LET series == CurveOf("series")
            route == CurveOf("route")
            startingBalance == StartingBalanceOf("series", curve.stored)
        IN  IF Len(curve.transactions) >= 1
            THEN /\ Len(route) = Len(series)
                 /\ \A k \in 1..Len(series) :
                      /\ route[k].date = series[k].date
                      /\ route[k].pnl = ToFixed(Minus(series[k].equity, startingBalance), 2)
            ELSE /\ Len(route) = 1
                 /\ route[1].pnl = Num(0)
                 /\ Len(series) = 1
                 /\ series[1].equity = startingBalance

(***************************************************************************)
(* The replays against the ledger                                          *)
(***************************************************************************)
\* C33 (as claimed). The two holdings computations agree: on the transactions read
\* from a log executeTrade produced, the position replay lists a symbol exactly when
\* the signed sum of its quantities (the sum of executeTrade's SELL check) is above 0,
\* and the netQty it reports is that sum.
C33_HoldingsAgreeClaim ==
    rd.pcP = "done" =>
        LET active == ActiveSymbols(ReplayPositions(LeanList(rd.logP)))
        IN  \A symbol \in Symbols :
                LET netQuantity == NetQuantity(SelectTxns(rd.logP, rd.userId, symbol))
                IN  /\ netQuantity > 0 <=> \E k \in 1..Len(active) : active[k].symbol = symbol
                    /\ \A k \in 1..Len(active) :
                         active[k].symbol = symbol => active[k].netQty = Num(netQuantity)

\* the symbol-to-quantity pairs of a Map whose values are quantities
QuantityPairs(holdings) ==
    { <<holdings[k].key, holdings[k].value>> : k \in 1..Len(holdings) }

\* the symbol-to-quantity pairs of the position replay's symbolState
StatePairs(symbolState) ==
    { <<symbolState[k].key, symbolState[k].value.quantity>> : k \in 1..Len(symbolState) }

\* C34 (as claimed). The equity replay ends where the ledger is: for the committed log
\* of an account opened with balance = startingBalance, the running cash of the equity
\* curve builder after the last transaction is the account's stored balance, and its
\* holdings are the symbols and quantities the position replay ends with.
C34_EquityReplayEndsAtLedgerClaim ==
    \A u \in Accounts : \A sorted \in SortsByCreatedAt(UserTxns(log, u)) :
        LET docs == LeanList(sorted)
            locals == CurveLocals("series", users[u].startingBalance, docs, 0)
        IN  /\ locals.cash = users[u].balance
            /\ QuantityPairs(locals.holdings) = StatePairs(ReplayPositions(docs))

(***************************************************************************)
(* The trade route (src/app/api/trade/route.ts): POST and the other        *)
(* methods. A handler gives way at each await, so a second request is      *)
(* served while the first awaits executeTrade.                             *)
(***************************************************************************)
Methods == {"POST", "GET", "PUT", "DELETE", "PATCH"}

\* a promise that rejects with an Error of the message
Rejected(message) == [t |-> "rejected", message |-> message]

\* what auth.api.getSession gives: no session, a session without a user id, the
\* session of a user, or a rejection
Sessions ==
    {Undefined, Rejected("auth down")}
    \cup { [t |-> "session", userId |-> id] : id \in {"", "u1"} }

\* the fields of the request body; userId is a field the handler does not read
BodySymbols == {Undefined, Num(1)} \cup { Str(symbol) : symbol \in {<<>>, <<"a", " ">>} }
BodyTypes == {Undefined} \cup { Str(type) : type \in {"BUY", "SELL", "HOLD"} }
BodyQuantities == {Undefined, Str("1"), NaN, Num(0), Num(1), Frac(3, 2)}

\* JSON null
Null == [t |-> "null"]

\* what request.json() gives: an object, null, or a rejection for a body that is not
\* JSON
Bodies ==
    [ t : {"object"}, symbol : BodySymbols, type : BodyTypes, quantity : BodyQuantities,
      userId : {"u0"} ]
    \cup {Null, Rejected("Unexpected token")}

\* line 20: the TypeError of destructuring null
ErrDestructure == "Cannot destructure property 'symbol' of 'body' as it is null."

\* line 11: !session?.user?.id
NoSessionUser(session) == session = Undefined \/ session.userId = ""

\* line 23: !symbol || typeof symbol !== "string"
SymbolInvalid(symbol) ==
    \/ symbol = Undefined
    \/ TypeOf(symbol) = "number" /\ (symbol.nan \/ symbol.n = 0)
    \/ TypeOf(symbol) = "string" /\ symbol.s = <<>>
    \/ TypeOf(symbol) # "string"

\* line 30: !type || (type !== "BUY" && type !== "SELL")
TypeInvalid(type) ==
    \/ type = Undefined
    \/ TypeOf(type) # "string"
    \/ type.s \notin {"BUY", "SELL"}

\* line 37: !quantity || typeof quantity !== "number" || quantity < 1
QuantityInvalid(quantity) ==
    \/ quantity = Undefined
    \/ TypeOf(quantity) # "number"
    \/ quantity.nan
    \/ quantity.n = 0
    \/ Less(quantity, Num(1))

\* a handler that trades for the user the body names
TradedUserIdOfBody(session, body) == body.userId

\* line 48: the account traded is session.user.id
TradedUserId(session, body) == session.userId

\* a handler that answers every result with 200
StatusOfAlwaysOk(success) == 200

\* lines 51-55: 200 for a success, 400 for a failure
StatusOf(success) == IF success THEN 200 ELSE 400

\* a response of the route; data is the data of a success result, or none; executed
\* tells whether executeTrade was called, and userId and engineError are what it was
\* called for and what it returned
Response(status, success, error) ==
    [ status |-> status, success |-> success, error |-> error, data |-> <<>>,
      executed |-> FALSE, userId |-> "", engineError |-> NoError, rejected |-> FALSE ]

\* lines 51-52: the result is the body of the response, its data with it
DataOf(returned) ==
    IF returned.success
    THEN << [ transactionId |-> returned.transactionId, symbol |-> returned.symbol,
              type |-> returned.type, quantity |-> returned.quantity,
              price |-> returned.price, totalAmount |-> returned.totalAmount,
              newBalance |-> returned.newBalance ] >>
    ELSE <<>>

RouteInit ==
    /\ modal = NoModal
    /\ users = [u \in Accounts |-> [balance |-> Num(OpeningBalance),
                                    startingBalance |-> Num(OpeningBalance)]]
    /\ log = <<>>
    /\ version = [u \in Accounts |-> 0]
    /\ nextId = 1
    /\ locked = [u \in Accounts |-> NoProc]
    /\ now = 0
    /\ pc = [p \in Procs |-> "idle"]
    /\ call = [p \in Procs |-> NoNumberCall]
    /\ result = [p \in Procs |-> Response(0, FALSE, NoError)]
    /\ ops = 0
    /\ rd = NoRead
    /\ sectorCache = <<>>
    /\ replay = NoReplay
    /\ curve = NoCurve
    /\ snapshot = NoSnapshot
    /\ daily = NoDaily

\* a request arrives at the route; only POST reads the session and the body
RouteRequest(p) ==
    /\ pc[p] = "idle"
    /\ ops < MaxCalls
    /\ \/ \E session \in Sessions, body \in Bodies :
            call' = [call EXCEPT ![p] =
                       [NoNumberCall EXCEPT !.request =
                          [method |-> "POST", session |-> session, body |-> body]]]
       \/ \E method \in Methods \ {"POST"} :
            call' = [call EXCEPT ![p] =
                       [NoNumberCall EXCEPT !.request.method = method]]
    /\ pc' = [pc EXCEPT ![p] = "received"]
    /\ result' = [result EXCEPT ![p] = Response(0, FALSE, NoError)]
    /\ ops' = ops + 1
    /\ UNCHANGED <<users, log, version, locked, now, nextId, rd, analytics>>

\* lines 69-96: GET, PUT, DELETE and PATCH
RouteOther(p) ==
    /\ pc[p] = "received"
    /\ call[p].request.method # "POST"
    /\ result' = [result EXCEPT ![p] = Response(405, FALSE, "Method not allowed")]
    /\ pc' = [pc EXCEPT ![p] = "idle"]
    /\ UNCHANGED <<users, log, version, locked, now, nextId, call, ops, rd, analytics>>

\* lines 6-48 and 56-65: POST up to its call of executeTrade, which runs to its await
\* of the price (trade.service.ts 29-46); a rejection of getSession or of
\* request.json and the TypeError of a null body go to the catch clause
RoutePost(p) ==
    /\ pc[p] = "received"
    /\ call[p].request.method = "POST"
    /\ LET session == call[p].request.session
           body == call[p].request.body
           answer(status, error) ==
               /\ result' = [result EXCEPT ![p] = Response(status, FALSE, error)]
               /\ pc' = [pc EXCEPT ![p] = "idle"]
               /\ UNCHANGED call
       IN  IF TypeOf(session) = "rejected" THEN answer(500, session.message)
           ELSE IF NoSessionUser(session) THEN answer(401, "Unauthorized")
           ELSE IF TypeOf(body) = "rejected" THEN answer(500, body.message)
           ELSE IF body = Null THEN answer(500, ErrDestructure)
           ELSE IF SymbolInvalid(body.symbol) THEN answer(400, "Invalid symbol")
           ELSE IF TypeInvalid(body.type)
                THEN answer(400, "Invalid type. Must be BUY or SELL")
           ELSE IF QuantityInvalid(body.quantity)
                THEN answer(400, "Invalid quantity. Must be a positive number")
           ELSE LET begun == NumberBegun(TradedUserId(session, body), body.symbol.s,
                                         body.type.s, body.quantity)
                IN  /\ call' = [call EXCEPT ![p] =
                                  [begun.locals EXCEPT !.request = call[p].request]]
                    /\ pc' = [pc EXCEPT ![p] = begun.pc]
                    /\ UNCHANGED result
    /\ UNCHANGED <<users, log, version, locked, now, nextId, ops, rd, analytics>>

\* lines 48-65: executeTrade has settled: 200 or 400 for the result it returned, 500
\* with the error's message where it threw
RouteRespond(p) ==
    /\ pc[p] = "returned"
    /\ LET returned == result[p]
           answered == IF returned.rejected
                       THEN Response(500, FALSE, returned.error)
                       ELSE Response(StatusOf(returned.success), returned.success,
                                     returned.error)
       IN  result' = [result EXCEPT ![p] =
                        [answered EXCEPT !.data = DataOf(returned),
                                         !.executed = TRUE, !.userId = call[p].userId,
                                         !.engineError = returned.error,
                                         !.rejected = returned.rejected]]
    /\ pc' = [pc EXCEPT ![p] = "idle"]
    /\ UNCHANGED <<users, log, version, locked, now, nextId, call, ops, rd, analytics>>

RouteNext ==
    \E p \in Procs :
        \/ RouteRequest(p)
        \/ RouteOther(p)
        \/ RoutePost(p)
        \/ NumberRun(p)
        \/ RouteRespond(p)

RouteSpec == RouteInit /\ [][RouteNext]_vars

(***************************************************************************)
(* Route properties                                                        *)
(***************************************************************************)
\* the request has no authenticated session
Unauthenticated(req) == req.session = Undefined \/ req.session.userId = ""

\* the body's symbol is not a string or is empty, its type is neither BUY nor SELL, or
\* its quantity is not a number of at least 1
BadBody(body) ==
    \/ body.symbol.t # "string" \/ body.symbol.s = <<>>
    \/ body.type.t # "string" \/ body.type.s \notin {"BUY", "SELL"}
    \/ body.quantity.t # "number" \/ body.quantity.nan \/ ~LessEq(Num(1), body.quantity)

\* getSession resolved and the body is a JSON object
Parsed(req) == TypeOf(req.session) # "rejected" /\ TypeOf(req.body) = "object"

\* the handler of slot p is in executeTrade
InExecuteTrade(p) ==
    pc[p] \in {"price", "load", "find", "save", "create", "commit", "catch", "finally",
               "returned"}

\* C35. POST /api/trade does not reach executeTrade, and changes no balance and no
\* log, for a request without an authenticated session (401) or with a symbol that is
\* not a string or is empty, a type other than BUY and SELL, or a quantity that is not
\* a number of at least 1 (400); the account it trades is the session's user id.
C35_RouteGuardsExecuteTrade ==
    [][\A p \in Procs :
        LET req == call[p].request
            res == result'[p]
        IN  /\ (pc[p] = "received" /\ pc'[p] # "received" /\ req.method = "POST") =>
                 /\ (TypeOf(req.session) # "rejected" /\ Unauthenticated(req)) =>
                      /\ pc'[p] = "idle" /\ ~res.executed /\ res.status = 401
                      /\ UNCHANGED <<users, log>>
                 /\ (Parsed(req) /\ ~Unauthenticated(req) /\ BadBody(req.body)) =>
                      /\ pc'[p] = "idle" /\ ~res.executed /\ res.status = 400
                      /\ UNCHANGED <<users, log>>
                 /\ ~Parsed(req) =>
                      /\ pc'[p] = "idle" /\ ~res.executed
                      /\ UNCHANGED <<users, log>>
                 /\ InExecuteTrade(p)' => call'[p].userId = req.session.userId
            /\ (pc[p] = "commit" /\ pc'[p] = "finally") =>
                 /\ log'[Len(log')].userId = req.session.userId
                 /\ \A u \in Accounts \ {req.session.userId} : users'[u] = users[u]]_vars

\* a trade was committed for the session's user on a request whose body names another
\* user, while a request with a bad quantity from the same session was answered 400
C35_Witness ==
    \E p, q \in Procs :
        /\ pc[p] = "idle" /\ pc[q] = "idle"
        /\ p # q
        /\ Len(log) = 1
        /\ log[1].userId = "u1"
        /\ result[p].executed
        /\ result[p].status = 200
        /\ result[p].userId = "u1"
        /\ call[p].request.body.userId # "u1"
        /\ result[q].status = 400
        /\ ~result[q].executed
        /\ call[q].request.body.quantity = Num(0)

\* the document the call in slot p created is in the log
Committed(p, txns) ==
    call[p].txnId # 0 /\ \E k \in 1..Len(txns) : txns[k].id = call[p].txnId

\* C36. POST /api/trade answers 200 exactly when the request committed one
\* transaction; a failure executeTrade returns is answered 400 with the engine's error
\* message as it is; GET, PUT, DELETE and PATCH answer 405 and change nothing.
C36_RouteStatus ==
    [][\A p \in Procs :
        (pc[p] \in {"received", "returned"} /\ pc'[p] = "idle") =>
            LET req == call[p].request
                res == result'[p]
            IN  IF req.method = "POST"
                THEN /\ res.status = 200 <=> Committed(p, log)
                     /\ Cardinality({k \in 1..Len(log) : log[k].id = call[p].txnId}) <= 1
                     /\ (res.executed /\ ~res.rejected /\ res.engineError # NoError) =>
                          /\ res.status = 400
                          /\ res.error = res.engineError
                ELSE /\ res.status = 405
                     /\ ~InExecuteTrade(p)
                     /\ UNCHANGED <<users, log>>]_vars

\* a request was answered 400 with the engine's 'WriteConflict' after another request,
\* which had loaded the account before it saved, was answered 200
C36_Witness ==
    \E p, q \in Procs :
        /\ pc[p] = "idle" /\ pc[q] = "idle"
        /\ result[p].executed /\ result[q].executed
        /\ result[p].status = 400
        /\ result[p].error = ErrWriteConflict
        /\ result[q].status = 200
        /\ Len(log) = 1

(***************************************************************************)
(* The starting balance each read path values the account against.         *)
(***************************************************************************)
\* what the user collection can hold in startingBalance: nothing (a document written
\* by Better Auth without the field) or a number, 0 included
StoredStartingBalances == {Undefined} \cup {Num(k) : k \in 0..OpeningBalance}

\* part_003 15-18: a document hydrated by Mongoose (findById without lean) gets the
\* schema's default for a path it does not hold
Hydrated(stored) == IF stored = Undefined THEN Num(DefaultBalance) ELSE stored

\* portfolio.service.ts 42: user.startingBalance || 100000
PortfolioStartingBalance(stored) == OrJS(Hydrated(stored), Num(DefaultBalance))

\* an account with any stored startingBalance and balance, nothing read yet
StartingInit ==
    /\ modal = NoModal
    /\ \E stored \in StoredStartingBalances, balance \in {0, OpeningBalance} :
         users = [u \in Accounts |-> [balance |-> Num(balance), startingBalance |-> stored]]
    /\ log = <<>>
    /\ version = [u \in Accounts |-> 0]
    /\ nextId = 1
    /\ locked = [u \in Accounts |-> NoProc]
    /\ now = 0
    /\ pc = [p \in Procs |-> "idle"]
    /\ call = [p \in Procs |-> NoCall]
    /\ result = [p \in Procs |-> NoResult]
    /\ ops = 0
    /\ rd = [NoRead EXCEPT !.userId = "u1", !.pcP = "user", !.pcE = "user"]
    /\ sectorCache = <<>>
    /\ replay = NoReplay
    /\ curve = [NoCurve EXCEPT !.pc = "user", !.op = "route"]
    /\ snapshot = NoSnapshot
    /\ daily = NoDaily

\* trades committed while the read paths run
MaxCommits == 1

\* executeTrade commits a trade of the account between two reads (trade.service.ts
\* 100-118): the new balance and the transaction become visible together
StartingTrade ==
    /\ Len(log) < MaxCommits
    /\ \E symbol \in Symbols, type \in {"BUY", "SELL"}, quantity \in {1},
          price \in 1..MaxPrice :
         LET u == rd.userId
             totalAmount == Mul(Num(price), Num(quantity))
         IN  /\ IF type = "BUY" THEN ~InsufficientBalance(users[u].balance, totalAmount)
                ELSE ~InsufficientHoldings(NetQuantity(SelectTxns(log, u, symbol)), quantity)
             /\ users' = [users EXCEPT ![u].balance =
                             IF type = "BUY" THEN Debit(@, totalAmount)
                             ELSE Credit(@, totalAmount)]
             /\ log' = Append(log, [ id |-> nextId, userId |-> u, symbol |-> symbol,
                                     type |-> type, quantity |-> quantity,
                                     price |-> Num(price), totalAmount |-> totalAmount,
                                     createdAt |-> now ])
    /\ nextId' = nextId + 1
    /\ version' = [version EXCEPT ![rd.userId] = @ + 1]
    /\ UNCHANGED <<locked, now, pc, call, result, ops, rd, analytics>>

\* getUserPortfolio lines 36-42: the hydrated user document is read, and the balance
\* and the startingBalance are taken from it
StartingPortfolio ==
    /\ rd.pcP = "user"
    /\ LET user == users[rd.userId]
           balance == OrJS(user.balance, Num(0))
           startingBalance == PortfolioStartingBalance(user.startingBalance)
       IN  /\ rd' = [rd EXCEPT !.balance = balance, !.startP = startingBalance,
                               !.pcP = "transactions"]
           /\ replay' = [replay EXCEPT !.balance = balance,
                                       !.startingBalance = startingBalance]
    /\ UNCHANGED <<users, log, version, locked, now, nextId, pc, call, result, ops,
                   curve, snapshot, daily, sectorCache, modal>>

\* getUserPortfolio lines 45-47: the transactions are read as committed by now; the
\* replay of lines 52-101 and the pricing of lines 103-185 follow
StartingPortfolioTransactions ==
    /\ rd.pcP = "transactions"
    /\ \E sorted \in SortsByCreatedAt(UserTxns(log, rd.userId)) :
         /\ rd' = [rd EXCEPT !.logP = sorted, !.pcP = "done"]
         /\ replay' = [replay EXCEPT !.pc = "loop", !.transactions = LeanList(sorted)]
    /\ UNCHANGED <<users, log, version, locked, now, nextId, pc, call, result, ops,
                   curve, snapshot, daily, sectorCache, modal>>

\* getEquityTimeSeries lines 178-183: the lean document's startingBalance
StartingSeries ==
    /\ rd.pcE = "user"
    /\ rd' = [rd EXCEPT !.startE = StartingBalanceOf("series", users[rd.userId].startingBalance),
                        !.pcE = "transactions"]
    /\ UNCHANGED <<users, log, version, locked, now, nextId, pc, call, result, ops, analytics>>

\* getEquityTimeSeries lines 185-187: the transactions are read as committed by now;
\* the points returned are EquityCurve("series", rd.startE, LeanList(rd.logE), now)
StartingSeriesTransactions ==
    /\ rd.pcE = "transactions"
    /\ \E sorted \in SortsByCreatedAt(UserTxns(log, rd.userId)) :
         rd' = [rd EXCEPT !.logE = sorted, !.pcE = "done"]
    /\ UNCHANGED <<users, log, version, locked, now, nextId, pc, call, result, ops, analytics>>

\* the equity route's GET lines 34-44: the lean user document is read and its
\* startingBalance taken
StartingRoute ==
    /\ curve.pc = "user"
    /\ LET stored == users[rd.userId].startingBalance
       IN  curve' = [curve EXCEPT !.stored = stored,
                                  !.startingBalance = StartingBalanceOf("route", stored),
                                  !.pc = "transactions"]
    /\ UNCHANGED <<trading, modal, replay, snapshot, daily, sectorCache>>

\* the equity route's GET lines 47-49 and 67: the transactions are read as committed
\* by now; without any the route returns the one point of lines 52-64, with some it
\* starts its cash from startingBalance and goes through them
StartingRouteTransactions ==
    /\ curve.pc = "transactions"
    /\ \E sorted \in SortsByCreatedAt(UserTxns(log, rd.userId)) :
         curve' = [curve EXCEPT !.transactions = LeanList(sorted),
                                !.cash = IF sorted = <<>> THEN @ ELSE curve.startingBalance,
                                !.pc = "loop"]
    /\ UNCHANGED <<trading, modal, replay, snapshot, daily, sectorCache>>

StartingNext ==
    \/ StartingTrade
    \/ StartingPortfolio
    \/ StartingPortfolioTransactions
    \/ ReplayLoop
    \/ ReplayCollect
    \/ PortfolioPrices
    \/ StartingSeries
    \/ StartingSeriesTransactions
    \/ StartingRoute
    \/ StartingRouteTransactions
    \/ CurveEmpty
    \/ CurveLoop
    \/ CurveReturn

StartingSpec == StartingInit /\ [][StartingNext]_vars

\* the three read paths have each read the user document and taken its startingBalance
StartingRead == rd.pcP # "user" /\ rd.pcE # "user" /\ curve.pc # "user"

\* C37 (as claimed). For every stored startingBalance, 0 and absent included, the
\* startingBalance getUserPortfolio takes totalReturn against, the one
\* getEquityTimeSeries starts its cash from and the one the equity route takes pnl
\* against are the same number.
C37_SameStartingBalanceClaim ==
    StartingRead => rd.startP = rd.startE /\ rd.startE = curve.startingBalance

(***************************************************************************)
(* TradeModal: the debounced price fetch and the submission of a trade.    *)
(***************************************************************************)
\* price fetches started and not yet settled at one time
MaxFetches == 1

\* symbol searches started and not yet settled at one time
MaxSearches == 1

\* what the user types into the symbol input, and into the quantity input
TypedSymbols == { <<"a">>, <<" ">> }

TypedQuantities == { <<>>, <<"0">>, <<"1">> }

\* router.refresh() calls whose page has not arrived yet, at one time
MaxRefreshes == 1

\* timeouts set by onBlur and not fired yet, at one time
MaxBlurs == 1

\* what the account holds when it holds something: one share and a half of A
ModalPositions == << [symbol |-> <<"A">>, netQty |-> Frac(3, 2)] >>

\* portfolio.positions as getUserPortfolio returns them to the page (page.tsx 35):
\* nothing held, or A held
PagePositions == { <<>>, ModalPositions }

\* the components of the portfolio page that render a TradeModal:
\* PortfolioTradeButton in the header (page.tsx 59-65) and PositionSellButton in the
\* row of each position (page.tsx 250-254)
Hosts == {"PortfolioTradeButton", "PositionSellButton"}

\* the position a row of the page shows, and the symbol the row is keyed by
\* (page.tsx 213-214)
RowPosition == ModalPositions[1]

\* what searchStocks answers: nothing, or stocks whose symbols come as the exchange
\* writes them
SearchResults ==
    { <<>>,
      << [symbol |-> <<"A">>, name |-> "A Inc", exchange |-> "US"],
         [symbol |-> <<"b">>, name |-> "B plc", exchange |-> "L"] >> }

DecimalDigits == <<"0", "1", "2", "3", "4", "5", "6", "7", "8", "9">>

IsDigit(c) == \E v \in 0..9 : DecimalDigits[v + 1] = c

DigitValue(c) == CHOOSE v \in 0..9 : DecimalDigits[v + 1] = c

RECURSIVE LeadingInteger(_, _)
\* the value of the digits a string starts with, after the value read so far
LeadingInteger(s, value) ==
    IF s = <<>> \/ ~IsDigit(Head(s)) THEN value
    ELSE LeadingInteger(Tail(s), 10 * value + DigitValue(Head(s)))

\* parseInt(string) of a string without a 0x prefix: white space is skipped, a sign
\* is read, then digits up to the first character that is none; NaN without a digit
ParseInt(string) ==
    LET s == TrimStart(string)
        signed == s # <<>> /\ Head(s) \in {"-", "+"}
        digits == IF signed THEN Tail(s) ELSE s
    IN  IF digits = <<>> \/ ~IsDigit(Head(digits)) THEN NaN
        ELSE IF signed /\ Head(s) = "-" THEN Num(0 - LeadingInteger(digits, 0))
        ELSE Num(LeadingInteger(digits, 0))

RECURSIVE DigitsOf(_)
\* the decimal digits of a natural number
DigitsOf(n) ==
    IF n < 10 THEN <<DecimalDigits[n + 1]>>
    ELSE Append(DigitsOf(n \div 10), DecimalDigits[(n % 10) + 1])

RECURSIVE DecimalsOf(_, _)
\* the digits behind the point of r / d, for r < d and d a product of 2s and 5s
DecimalsOf(r, d) ==
    IF r = 0 THEN <<>>
    ELSE <<DecimalDigits[((10 * r) \div d) + 1]>> \o DecimalsOf((10 * r) % d, d)

\* String(x) of a number with a short decimal expansion: "2", "1.5"
StringOf(x) ==
    (IF x.n < 0 THEN <<"-">> ELSE <<>>)
        \o DigitsOf(Abs(x.n) \div x.d)
        \o (IF Abs(x.n) % x.d = 0 THEN <<>> ELSE <<".">> \o DecimalsOf(Abs(x.n) % x.d, x.d))

\* the answers of getStockDetails a modal gets: a failure, no price, the price 0 or
\* the price 1. The modal asks of a price whether it is truthy (lines 176, 305, 392)
\* and nothing else.
ModalAnswers == { answer \in OracleAnswers : answer.currentPrice \in {Num(0), Num(1)} }

\* line 176: result.success && result.data?.currentPrice
PriceFetched(stockData) ==
    /\ stockData.success
    /\ stockData.hasPrice
    /\ ~stockData.currentPrice.nan
    /\ stockData.currentPrice # Num(0)

\* what POST /api/trade answers: 200 with success, or a failure with or without a
\* message in the body
TradeResponses ==
    { [ok |-> TRUE,  success |-> TRUE,  error |-> ""],
      [ok |-> FALSE, success |-> FALSE, error |-> ErrInsufficientBalance],
      [ok |-> FALSE, success |-> FALSE, error |-> ""] }

\* line 110: err.message of the error fetch rejects with
ErrFetch == "Failed to fetch"

\* lines 54-57: the shares owned of the symbol in the input, in SELL mode
MaxOwnedQty(m) ==
    LET found == { k \in 1..Len(m.positions) : m.positions[k].symbol = Trim(m.symbol) }
    IN  IF m.type = "SELL" /\ found # {}
        THEN m.positions[CHOOSE k \in found : \A l \in found : k <= l].netQty
        ELSE Num(0)

\* line 60: parseInt(quantity) || 0
QuantityNum(m) == OrJS(ParseInt(m.quantity), Num(0))

\* lines 390-396: the disabled attribute of the submit control
SubmitDisabled(m) ==
    \/ m.loading
    \/ m.currentPrice = <<>>
    \/ m.priceLoading
    \/ QuantityNum(m) = Num(0)
    \/ Less(QuantityNum(m), Num(1))

\* lines 281-283: the list of suggestions is rendered
SuggestionsShown(m) ==
    ~m.disableSuggestions /\ m.showSuggestions /\ Len(m.suggestions) > 0

\* lines 136-138: results.slice(0, 6).map((s) => ({ symbol: s.symbol, name: s.name }))
Suggested(results) ==
    [ k \in 1..(IF Len(results) < 6 THEN Len(results) ELSE 6) |->
        [symbol |-> results[k].symbol, name |-> results[k].name] ]

\* lines 149-151 and 159-194, the effects on [symbol, type] and on [symbol] after a
\* render with a new symbol: fetchSuggestions is debounced anew, the cleanup clears the
\* pending price timeout and a new one is set whose fetchPrice closure holds the symbol
\* of this render
SetSymbol(m, symbol) ==
    IF symbol = m.symbol THEN m
    ELSE [m EXCEPT !.symbol = symbol, !.timer = <<symbol>>, !.searchTimer = TRUE]

\* lines 149-151, the effect on [symbol, type] after a render with a new type
SetTypeTo(m, type) ==
    IF type = m.type THEN m ELSE [m EXCEPT !.type = type, !.searchTimer = TRUE]

\* the ledger and the analytics play no part in the modal
ModalFrame == UNCHANGED <<trading, replay, curve, snapshot, daily, sectorCache>>

\* PortfolioTradeButton.tsx 13-37 and 51-79 with TradeModal.tsx 29-51 and 147-194: the
\* modal as its host mounts it, closed: PortfolioTradeButton passes the positions of
\* the page, PositionSellButton its own symbol as defaultSymbol, SELL as defaultType,
\* its one position and disableSuggestions. The effects of the first render have set
\* the first price timeout and debounced the first fetchSuggestions.
Mounted(host, positions) ==
    IF host = "PortfolioTradeButton"
    THEN [NoModal EXCEPT !.host = host, !.positions = positions,
                         !.timer = <<NoModal.symbol>>, !.searchTimer = TRUE]
    ELSE [NoModal EXCEPT !.host = host,
                         !.symbol = ToUpperCase(RowPosition.symbol), !.type = "SELL",
                         !.positions = <<RowPosition>>, !.disableSuggestions = TRUE,
                         !.timer = <<ToUpperCase(RowPosition.symbol)>>,
                         !.searchTimer = TRUE]

\* line 193 and the end of the last render: the page no longer renders the host, the
\* cleanup of the price effect clears the pending timeout and the dialog is gone
Unmounted(m) == [m EXCEPT !.mounted = FALSE, !.open = FALSE, !.timer = <<>>]

\* page.tsx 35 and 59-65, 212-254: the page rendered anew with the positions
\* getUserPortfolio now returns. The header's modal gets them as its positions prop;
\* the modal of a row gets the row's position, and is unmounted with the row when the
\* position is no longer held
Refreshed(m, positions) ==
    IF ~m.mounted THEN m
    ELSE IF m.host = "PortfolioTradeButton" THEN [m EXCEPT !.positions = positions]
    ELSE LET rows == { k \in 1..Len(positions) : positions[k].symbol = RowPosition.symbol }
         IN  IF rows = {} THEN Unmounted(m)
             ELSE [m EXCEPT !.positions = <<positions[CHOOSE k \in rows : TRUE]>>]

\* the page as rendered first: the header's modal over any portfolio, or the modal of
\* the row of a position held
ModalInit ==
    /\ \E host \in Hosts, positions \in PagePositions :
         /\ host = "PositionSellButton" => positions # <<>>
         /\ modal = Mounted(host, positions)
    /\ TradingIdle
    /\ sectorCache = <<>>
    /\ replay = NoReplay
    /\ curve = NoCurve
    /\ snapshot = NoSnapshot
    /\ daily = NoDaily

\* lines 262-265: onChange of the symbol input, which is disabled while loading; the
\* value typed differs from the one shown
OnChangeSymbol ==
    /\ modal.open /\ ~modal.loading
    /\ \E value \in TypedSymbols :
         /\ value # modal.symbol
         /\ modal' = [SetSymbol(modal, ToUpperCase(value)) EXCEPT !.showSuggestions = TRUE]
    /\ ModalFrame

\* line 266: onBlur of the symbol input sets a timeout of 150 ms
OnBlurSymbol ==
    /\ modal.open
    /\ modal.blurs < MaxBlurs
    /\ modal' = [modal EXCEPT !.blurs = @ + 1]
    /\ ModalFrame

\* line 266: a timeout set by onBlur fires, whatever has become of the dialog since:
\* setShowSuggestions(false)
BlurTimeoutFires ==
    /\ modal.blurs > 0
    /\ modal' = IF modal.mounted
                THEN [modal EXCEPT !.blurs = @ - 1, !.showSuggestions = FALSE]
                ELSE [modal EXCEPT !.blurs = @ - 1]
    /\ ModalFrame

\* lines 267-269: onFocus of the symbol input, which is disabled while loading
OnFocusSymbol ==
    /\ modal.open /\ ~modal.loading
    /\ Len(modal.suggestions) > 0
    /\ ~modal.showSuggestions
    /\ modal' = [modal EXCEPT !.showSuggestions = TRUE]
    /\ ModalFrame

\* lines 125-133 and 147: the debounce of 300 ms is over and fetchSuggestions runs up
\* to its await
FetchSuggestions ==
    /\ modal.searchTimer
    /\ IF modal.disableSuggestions
       THEN modal' = [modal EXCEPT !.searchTimer = FALSE]
       ELSE IF Trim(modal.symbol) = <<>>
       THEN modal' = IF modal.mounted
                     THEN [modal EXCEPT !.searchTimer = FALSE, !.suggestions = <<>>,
                                        !.showSuggestions = FALSE]
                     ELSE [modal EXCEPT !.searchTimer = FALSE]
       ELSE /\ modal.searches < MaxSearches
            /\ modal' = IF modal.mounted
                        THEN [modal EXCEPT !.searchTimer = FALSE,
                                           !.suggestionsLoading = TRUE,
                                           !.searches = @ + 1]
                        ELSE [modal EXCEPT !.searchTimer = FALSE, !.searches = @ + 1]
    /\ ModalFrame

\* lines 135-144: searchStocks settles for a fetchSuggestions awaiting it
SuggestionsSettle ==
    /\ modal.searches > 0
    /\ \E results \in SearchResults, thrown \in BOOLEAN :
         IF ~modal.mounted
         THEN modal' = [modal EXCEPT !.searches = @ - 1]
         ELSE IF thrown
         THEN modal' = [modal EXCEPT !.suggestions = <<>>, !.suggestionsLoading = FALSE,
                                     !.searches = @ - 1]
         ELSE modal' = [modal EXCEPT !.suggestions = Suggested(results),
                                     !.showSuggestions = TRUE,
                                     !.suggestionsLoading = FALSE, !.searches = @ - 1]
    /\ ModalFrame

\* lines 153-157 and 288: onMouseDown of a suggestion of the list, which stays in
\* place while loading; the symbol is stored as the suggestion has it
HandleSelectSuggestion ==
    /\ modal.open
    /\ SuggestionsShown(modal)
    /\ \E k \in 1..Len(modal.suggestions) :
         modal' = [SetSymbol(modal, modal.suggestions[k].symbol) EXCEPT
                     !.suggestions = <<>>, !.showSuggestions = FALSE]
    /\ ModalFrame

\* line 340: onChange of the quantity input, which is disabled while loading
OnChangeQuantity ==
    /\ modal.open /\ ~modal.loading
    /\ \E value \in TypedQuantities :
         /\ value # modal.quantity
         /\ modal' = [modal EXCEPT !.quantity = value]
    /\ ModalFrame

\* lines 324-327: onClick of the MAX button, rendered in SELL mode over a position of
\* the symbol, loading or not
OnClickMax ==
    /\ modal.open
    /\ modal.type = "SELL" /\ Greater(MaxOwnedQty(modal), Num(0))
    /\ modal' = [modal EXCEPT !.quantity = StringOf(MaxOwnedQty(modal))]
    /\ ModalFrame

\* lines 232 and 244: the BUY and SELL buttons
SetType ==
    /\ modal.open
    /\ \E type \in {"BUY", "SELL"} : modal' = SetTypeTo(modal, type)
    /\ ModalFrame

\* lines 161-171 and 191: the timeout fires and fetchPrice runs up to its await
TimeoutFires ==
    /\ modal.timer # <<>>
    /\ LET trimmedSymbol == Trim(modal.timer[1])
       IN  IF trimmedSymbol = <<>>
           THEN modal' = [modal EXCEPT !.timer = <<>>, !.currentPrice = <<>>,
                                       !.priceFor = <<>>, !.priceError = ""]
           ELSE /\ Len(modal.fetches) < MaxFetches
                /\ modal' = [modal EXCEPT !.timer = <<>>, !.priceLoading = TRUE,
                                          !.priceError = "",
                                          !.fetches = Append(modal.fetches, trimmedSymbol)]
    /\ ModalFrame

\* lines 174-187: getStockDetails settles for one of the closures awaiting it
PriceSettles ==
    /\ \E k \in 1..Len(modal.fetches), stockData \in ModalAnswers, thrown \in BOOLEAN :
         LET rest == SubSeq(modal.fetches, 1, k - 1)
                         \o SubSeq(modal.fetches, k + 1, Len(modal.fetches))
         IN  IF ~modal.mounted
             THEN modal' = [modal EXCEPT !.fetches = rest]
             ELSE IF ~thrown /\ PriceFetched(stockData)
             THEN modal' = [modal EXCEPT !.currentPrice = <<stockData.currentPrice>>,
                                         !.priceFor = modal.fetches[k],
                                         !.priceLoading = FALSE, !.fetches = rest]
             ELSE modal' = [modal EXCEPT !.currentPrice = <<>>, !.priceFor = <<>>,
                                         !.priceError =
                                             IF thrown THEN "Failed to fetch stock price"
                                             ELSE "Unable to fetch price for this symbol",
                                         !.priceLoading = FALSE, !.fetches = rest]
    /\ ModalFrame

\* lines 63-92: the form is submitted; the request is sent unless a field is invalid
HandleSubmit ==
    /\ modal.open /\ ~SubmitDisabled(modal)
    /\ LET quantityNum == ParseInt(modal.quantity)
       IN  IF Trim(modal.symbol) = <<>>
           THEN modal' = [modal EXCEPT !.error = "Please enter a stock symbol"]
           ELSE IF quantityNum.nan \/ quantityNum = Num(0) \/ Less(quantityNum, Num(1))
           THEN modal' = [modal EXCEPT !.error = "Quantity must be at least 1"]
           ELSE modal' = [modal EXCEPT
                            !.error = "", !.loading = TRUE,
                            !.requests = Append(modal.requests,
                                                [symbol |-> ToUpperCase(modal.symbol),
                                                 type |-> modal.type,
                                                 quantity |-> quantityNum])]
    /\ ModalFrame

\* how a request settles: fetch or response.json() throws, the response is a failure,
\* or it is a success
Settlement(response, thrown) ==
    IF thrown THEN "thrown"
    ELSE IF ~response.ok \/ ~response.success THEN "failed"
    ELSE "succeeded"

\* lines 94-113: the request settles: thrown, failed or succeeded, and the finally
\* clause clears loading. After a success onClose() closes the dialog, router.refresh()
\* asks for the page anew and the form is reset. In a modal unmounted since the
\* request was sent the setters and onClose() do nothing; router.refresh() is called
\* all the same.
TradeSettles ==
    /\ \E k \in 1..Len(modal.requests), response \in TradeResponses, thrown \in BOOLEAN :
         LET rest == SubSeq(modal.requests, 1, k - 1)
                         \o SubSeq(modal.requests, k + 1, Len(modal.requests))
             settled == Settlement(response, thrown)
             called == [modal EXCEPT !.requests = rest, !.settled = settled,
                                     !.refreshes = IF settled = "succeeded" THEN @ + 1
                                                   ELSE @]
         IN  /\ settled = "succeeded" => modal.refreshes < MaxRefreshes
             /\ IF ~modal.mounted THEN modal' = called
                ELSE IF settled = "thrown"
                THEN modal' = [called EXCEPT !.error = ErrFetch, !.loading = FALSE]
                ELSE IF settled = "failed"
                THEN modal' = [called EXCEPT
                                 !.error = IF response.error = ""
                                           THEN "Trade execution failed"
                                           ELSE response.error,
                                 !.loading = FALSE]
                ELSE modal' = [SetTypeTo(SetSymbol(called, <<>>), "BUY") EXCEPT
                                 !.open = FALSE, !.quantity = <<>>, !.loading = FALSE]
    /\ ModalFrame

\* line 103 and page.tsx 26-35: the page asked for by router.refresh() arrives,
\* rendered from what getUserPortfolio returns by then
RefreshArrives ==
    /\ modal.refreshes > 0
    /\ \E positions \in PagePositions :
         modal' = [Refreshed(modal, positions) EXCEPT !.refreshes = @ - 1]
    /\ ModalFrame

\* lines 115-121: Cancel, Escape or a click outside the dialog
HandleClose ==
    /\ modal.open
    /\ IF ~modal.loading
       THEN modal' = [modal EXCEPT !.error = "", !.priceError = "", !.open = FALSE]
       ELSE UNCHANGED modal
    /\ ModalFrame

\* PortfolioTradeButton.tsx 22 and 62: onClick of the host's button, setIsOpen(true)
Reopen ==
    /\ modal.mounted
    /\ ~modal.open
    /\ modal' = [modal EXCEPT !.open = TRUE]
    /\ ModalFrame

ModalNext ==
    \/ OnChangeSymbol \/ OnBlurSymbol \/ BlurTimeoutFires \/ OnFocusSymbol
    \/ FetchSuggestions \/ SuggestionsSettle \/ HandleSelectSuggestion
    \/ OnChangeQuantity \/ OnClickMax \/ SetType \/ TimeoutFires \/ PriceSettles
    \/ HandleSubmit \/ TradeSettles \/ RefreshArrives \/ HandleClose \/ Reopen

ModalSpec == ModalInit /\ [][ModalNext]_vars

\* C38 (as claimed). Whenever priceLoading is false and currentPrice is not null,
\* currentPrice is the price fetched for the symbol now in the input, under any
\* sequence of symbol edits and any order in which the fetches settle.
C38_PriceNeverStaleClaim ==
    (~modal.priceLoading /\ modal.currentPrice # <<>>) => modal.priceFor = Trim(modal.symbol)

\* C39 (as claimed). One trade at a time: at most one POST /api/trade is in flight,
\* and loading is true exactly while it is; while loading the submit control is
\* disabled, the modal stays open and no step sends another request; the step in which
\* the request settles clears loading, and it closes the modal and resets the form
\* when the response is a success and only then: after a failed or thrown one the
\* modal stays open with the form as it was and a non-empty error.
C39_OneTradeAtATimeClaim ==
    /\ [](/\ Len(modal.requests) <= 1
          /\ modal.loading <=> Len(modal.requests) = 1
          /\ modal.loading => SubmitDisabled(modal) /\ modal.open)
    /\ [][modal.loading /\ modal.requests' = modal.requests
            => modal.loading' /\ modal.open' /\ modal.error' = modal.error]_vars
    /\ [][Len(modal.requests') < Len(modal.requests)
            => /\ ~modal.loading'
               /\ IF modal.settled' = "succeeded"
                  THEN /\ ~modal.open'
                       /\ modal.symbol' = <<>> /\ modal.quantity' = <<>> /\ modal.type' = "BUY"
                  ELSE /\ modal.open'
                       /\ modal.error' # ""
                       /\ modal.symbol' = modal.symbol
                       /\ modal.quantity' = modal.quantity
                       /\ modal.type' = modal.type]_vars

=============================================================================
